---- MODULE Spec2Model ----
(***************************************************************************)
(* Model of cargo's manifest normalisation (src/cargo/util/toml/mod.rs):   *)
(* canonicalisation of workspace-delegated dependencies, materialisation   *)
(* of a canonical dependency into a dependency record bound to a source    *)
(* identity, and the assembly of a manifest's dependency list.             *)
(*                                                                         *)
(* Option<T> is a sequence of length at most one: None is <<>>, Some(x) is *)
(* <<x>>.  A Vec or a BTreeMap's entry list is a sequence.  A version      *)
(* string is a sequence of one-character strings, so that                  *)
(* `version.contains('+')` is computed on it.                              *)
(***************************************************************************)
EXTENDS Integers, Sequences, FiniteSets, TLC

VARIABLES pc, dep, cx, ws, manifest, out

vars == <<pc, dep, cx, ws, manifest, out>>

\* ------------------------------------------------------------------ Option

None == <<>>

Some(x) == <<x>>

is_some(o) == o # <<>>

is_none(o) == o = <<>>

\* Option::or: the first value when it is set, the second otherwise.
or_else(a, b) == IF is_some(a) THEN a ELSE b

\* Option::unwrap_or.
unwrap_or(o, d) == IF is_some(o) THEN o[1] ELSE d

\* ----------------------------------------------------------- collaborators

\* str::contains(char) on a string held as a sequence of characters.
contains(s, c) == \E i \in DOMAIN s : s[i] = c

\* IntoUrl::into_url: Url::parse succeeds only on a string with a scheme.
\* A URL is held as the sequence <<scheme-and-path>> or
\* <<scheme-and-path, "#", fragment>>.
into_url_ok(u) == Len(u) >= 1 /\ u[1] \in {"https://example.com/repo", "https://example.com/other", "https://index.example.com"}

\* Url::fragment: the part after `#`, when there is one.
fragment(u) == IF Len(u) = 3 /\ u[2] = "#" THEN Some(u[3]) ELSE None

\* The URL without its fragment (what the git source is located by).
url_location(u) == u[1]

\* Config: the alternate registries configured, name -> index.
config_registries == {"alt"}

\* SourceId::alt_registry fails for a registry name the config does not know.
alt_registry_ok(registry) == registry \in config_registries

\* semver::VersionReq::parse, as used by Dependency::parse: the requirement
\* must start with a digit (a comparator prefix is not modelled).
version_req_ok(v) == Len(v) >= 1 /\ v[1] \in {"0", "1", "2"}

\* SourceId constructors: one tagged value per kind of source identity.
SourceId_for_git(loc, reference) == [kind |-> "git", url |-> <<loc>>, reference |-> reference]

SourceId_for_path(path) == [kind |-> "path", url |-> path, reference |-> None]

SourceId_alt_registry(registry) == [kind |-> "alt_registry", url |-> <<registry>>, reference |-> None]

SourceId_for_registry(url) == [kind |-> "registry", url |-> <<url_location(url)>>, reference |-> None]

SourceId_crates_io == [kind |-> "crates_io", url |-> <<"crates-io">>, reference |-> None]

\* GitReference
GitReference_Branch(s) == <<"branch", s>>

GitReference_Tag(s) == <<"tag", s>>

GitReference_Rev(s) == <<"rev", s>>

GitReference_DefaultBranch == <<"default_branch">>

\* util::normalize_path over a path held as its sequence of components:
\* `.` is dropped and `..` pops the component before it.
RECURSIVE normalize_path(_)
normalize_path(p) ==
  IF p = <<>> THEN <<>>
  ELSE LET init == normalize_path(SubSeq(p, 1, Len(p) - 1))
           c == p[Len(p)]
       IN IF c = "." THEN init
          ELSE IF c = ".." /\ init # <<>> /\ init[Len(init)] # ".." THEN SubSeq(init, 1, Len(init) - 1)
          ELSE Append(init, c)

\* Path::join: an absolute path replaces the directory it is joined onto.
path_join(root, p) == IF p # <<>> /\ p[1] = "/" THEN p ELSE root \o p

\* ------------------------------------------------------------- warnings

W_no_source == "specified without providing a local path, Git repository, or version to use"

W_semver_metadata == "includes semver metadata which will be ignored"

W_key_ignored(key_name) ==
  IF key_name = "branch" THEN "key branch is ignored"
  ELSE IF key_name = "tag" THEN "key tag is ignored"
  ELSE "key rev is ignored"

W_git_or_path == "ambiguous. Only one of git or path is allowed"

W_branch_tag_rev == "ambiguous. Only one of branch, tag or rev is allowed"

W_fragment == "URL fragment in git URL is ignored"

E_git_or_registry == "ambiguous. Only one of git or registry is allowed."

E_registry_or_index == "ambiguous. Only one of registry or registry-index is allowed."

E_invalid_url == "invalid url"

E_no_registry == "no index found for registry"

E_version_req == "failed to parse the version requirement"

E_feature_rename == "feature rename-dependency is required"

E_feature_public == "feature public-dependency is required"

E_public_kind == "public specifier can only be used on regular dependencies"

\* ------------------------------------------------ TomlDependencyDetails

\* TomlDependencyDetails::default()
DetailsDefault ==
  [version |-> None, registry |-> None, registry_index |-> None, path |-> None,
   git |-> None, branch |-> None, tag |-> None, rev |-> None, features |-> None,
   optional |-> None, default_features |-> None, default_features2 |-> None,
   package |-> None, public |-> None]

\* A failed CargoResult: the error and the context as the call left it.
Err(e, c) == [ok |-> FALSE, err |-> e, dep |-> None, cx |-> c]

Ok(d, c) == [ok |-> TRUE, err |-> "", dep |-> Some(d), cx |-> c]

prelude_warnings_without_rev(self, c) ==
  [c EXCEPT !.warnings =
     @ \o (IF is_none(self.version) /\ is_none(self.path) /\ is_none(self.git)
           THEN <<W_no_source>> ELSE <<>>)
       \o (IF is_some(self.version) /\ contains(self.version[1], "+")
           THEN <<W_semver_metadata>> ELSE <<>>)
       \o (IF is_none(self.git) /\ is_some(self.branch) THEN <<W_key_ignored("branch")>> ELSE <<>>)
       \o (IF is_none(self.git) /\ is_some(self.tag) THEN <<W_key_ignored("tag")>> ELSE <<>>)]

\* Lines 2319-2358: the warnings pushed before the source is derived, in
\* the order of the code: no source, semver metadata, the ignored git keys.
prelude_warnings(self, c) ==
  [c EXCEPT !.warnings =
     @ \o (IF is_none(self.version) /\ is_none(self.path) /\ is_none(self.git)
           THEN <<W_no_source>> ELSE <<>>)
       \o (IF is_some(self.version) /\ contains(self.version[1], "+")
           THEN <<W_semver_metadata>> ELSE <<>>)
       \o (IF is_none(self.git) /\ is_some(self.branch) THEN <<W_key_ignored("branch")>> ELSE <<>>)
       \o (IF is_none(self.git) /\ is_some(self.tag) THEN <<W_key_ignored("tag")>> ELSE <<>>)
       \o (IF is_none(self.git) /\ is_some(self.rev) THEN <<W_key_ignored("rev")>> ELSE <<>>)]

n_details_without_rev(self) ==
  (IF is_some(self.branch) THEN 1 ELSE 0) + (IF is_some(self.tag) THEN 1 ELSE 0)

\* Lines 2387-2390: how many of branch, tag, rev are set.
n_details(self) ==
  (IF is_some(self.branch) THEN 1 ELSE 0) + (IF is_some(self.tag) THEN 1 ELSE 0)
    + (IF is_some(self.rev) THEN 1 ELSE 0)

git_reference_tag_first(self) ==
  IF is_some(self.tag) THEN GitReference_Tag(self.tag[1])
  ELSE IF is_some(self.branch) THEN GitReference_Branch(self.branch[1])
  ELSE IF is_some(self.rev) THEN GitReference_Rev(self.rev[1])
  ELSE GitReference_DefaultBranch

git_reference_rev_before_tag(self) ==
  IF is_some(self.branch) THEN GitReference_Branch(self.branch[1])
  ELSE IF is_some(self.rev) THEN GitReference_Rev(self.rev[1])
  ELSE IF is_some(self.tag) THEN GitReference_Tag(self.tag[1])
  ELSE GitReference_DefaultBranch

\* Lines 2402-2408: the git reference, first of branch, tag, rev that is set.
git_reference(self) ==
  IF is_some(self.branch) THEN GitReference_Branch(self.branch[1])
  ELSE IF is_some(self.tag) THEN GitReference_Tag(self.tag[1])
  ELSE IF is_some(self.rev) THEN GitReference_Rev(self.rev[1])
  ELSE GitReference_DefaultBranch

\* Lines 2376-2422: the arm of a dependency with a git location.  The two
\* ambiguity warnings are pushed before the URL is parsed, the fragment
\* warning after.
git_source(self, c) ==
  LET git == self.git[1]
      ambiguity == (IF is_some(self.path) THEN <<W_git_or_path>> ELSE <<>>)
                     \o (IF n_details(self) > 1 THEN <<W_branch_tag_rev>> ELSE <<>>)
      ignored == IF is_some(fragment(git)) THEN <<W_fragment>> ELSE <<>>
  IN IF ~into_url_ok(git)
     THEN [ok |-> FALSE, err |-> E_invalid_url, id |-> None,
           cx |-> [c EXCEPT !.warnings = @ \o ambiguity]]
     ELSE [ok |-> TRUE, err |-> "",
           id |-> Some(SourceId_for_git(url_location(git), git_reference(self))),
           cx |-> [c EXCEPT !.warnings = @ \o ambiguity \o ignored]]

\* Lines 2423-2440: the arm of a dependency with a path and no git location.
path_source(self, c) ==
  LET c1 == [c EXCEPT !.nested_paths = Append(@, self.path[1])]
      id == IF c.source_id.kind = "path"
            THEN SourceId_for_path(normalize_path(path_join(c.root, self.path[1])))
            ELSE c.source_id
  IN [ok |-> TRUE, err |-> "", id |-> Some(id), cx |-> c1]

\* Line 2366: the arms (Some(_), _, Some(_), _) | (Some(_), _, _, Some(_)).
ambiguous_git_registry_no_index(self) == is_some(self.git) /\ is_some(self.registry)

ambiguous_git_registry(self) ==
  is_some(self.git) /\ (is_some(self.registry) \/ is_some(self.registry_index))

\* Line 2371: the arm (_, _, Some(_), Some(_)).
ambiguous_registry_index_never(self) == FALSE

ambiguous_registry_index(self) == is_some(self.registry) /\ is_some(self.registry_index)

\* Lines 2441-2446: the arms of a dependency with neither git nor path.
registry_source_ignoring_index(self, c) ==
  IF is_some(self.registry) /\ is_none(self.registry_index)
    THEN IF alt_registry_ok(self.registry[1])
         THEN [ok |-> TRUE, err |-> "", id |-> Some(SourceId_alt_registry(self.registry[1])), cx |-> c]
         ELSE [ok |-> FALSE, err |-> E_no_registry, id |-> None, cx |-> c]
  ELSE [ok |-> TRUE, err |-> "", id |-> Some(SourceId_crates_io), cx |-> c]

registry_source(self, c) ==
  IF is_some(self.registry) /\ is_none(self.registry_index)
    THEN IF alt_registry_ok(self.registry[1])
         THEN [ok |-> TRUE, err |-> "", id |-> Some(SourceId_alt_registry(self.registry[1])), cx |-> c]
         ELSE [ok |-> FALSE, err |-> E_no_registry, id |-> None, cx |-> c]
  ELSE IF is_none(self.registry) /\ is_some(self.registry_index)
    THEN IF into_url_ok(self.registry_index[1])
         THEN [ok |-> TRUE, err |-> "", id |-> Some(SourceId_for_registry(self.registry_index[1])), cx |-> c]
         ELSE [ok |-> FALSE, err |-> E_invalid_url, id |-> None, cx |-> c]
  ELSE [ok |-> TRUE, err |-> "", id |-> Some(SourceId_crates_io), cx |-> c]

\* Lines 2360-2447: the match on (git, path, registry, registry_index), its
\* arms tried in the order they are written.
new_source_id(self, c) ==
  IF ambiguous_git_registry(self)
    THEN [ok |-> FALSE, err |-> E_git_or_registry, id |-> None, cx |-> c]
  ELSE IF ambiguous_registry_index(self)
    THEN [ok |-> FALSE, err |-> E_registry_or_index, id |-> None, cx |-> c]
  ELSE IF is_some(self.git) THEN git_source(self, c)
  ELSE IF is_some(self.path) THEN path_source(self, c)
  ELSE registry_source(self, c)

\* Dependency::parse and the setters of lines 2459-2466.
Dependency_parse(self, pkg_name, id, c) ==
  [name |-> pkg_name,
   version_req |-> self.version,
   source_id |-> id,
   features |-> unwrap_or(self.features, <<>>),
   default_features |-> unwrap_or(or_else(self.default_features, self.default_features2), TRUE),
   optional |-> unwrap_or(self.optional, FALSE),
   platform |-> c.platform,
   registry_id |-> None,
   kind |-> "Normal",
   explicit_name_in_toml |-> None,
   public |-> FALSE]

\* Lines 2467-2475: the registry id of a dependency that names a registry.
registry_id_of(self) ==
  IF is_some(self.registry_index) THEN Some(SourceId_for_registry(self.registry_index[1]))
  ELSE IF is_some(self.registry) THEN Some(SourceId_alt_registry(self.registry[1]))
  ELSE None

\* Lines 2449-2495: the dependency record built on the derived source.
build_dependency(self, name_in_toml, id, c, kind) ==
  LET pkg_name == IF is_some(self.package) THEN self.package[1] ELSE name_in_toml
      explicit_name_in_toml == IF is_some(self.package) THEN Some(name_in_toml) ELSE None
      d0 == Dependency_parse(self, pkg_name, id, c)
      d1 == [d0 EXCEPT !.registry_id = registry_id_of(self),
                       !.kind = unwrap_or(kind, "Normal"),
                       !.explicit_name_in_toml = explicit_name_in_toml]
  IN IF is_some(self.version) /\ ~version_req_ok(self.version[1]) THEN Err(E_version_req, c)
     ELSE IF is_some(self.registry) /\ ~alt_registry_ok(self.registry[1]) THEN Err(E_no_registry, c)
     ELSE IF is_some(self.registry_index) /\ ~into_url_ok(self.registry_index[1]) THEN Err(E_invalid_url, c)
     ELSE IF is_some(explicit_name_in_toml) /\ "rename_dependency" \notin c.features THEN Err(E_feature_rename, c)
     ELSE IF is_some(self.public) /\ "public_dependency" \notin c.features THEN Err(E_feature_public, c)
     ELSE IF is_some(self.public) /\ d1.kind # "Normal" THEN Err(E_public_kind, c)
     ELSE IF is_some(self.public) THEN Ok([d1 EXCEPT !.public = self.public[1]], c)
     ELSE Ok(d1, c)

\* Dependency::name_in_toml: the table key the dependency was declared under.
dep_name_in_toml(d) == unwrap_or(d.explicit_name_in_toml, d.name)

\* Lines 2360-2447 end in `?` or bail!: without a source there is no record.
dependency_on_source(self, name_in_toml, src, kind) ==
  IF ~src.ok THEN Err(src.err, src.cx)
  ELSE build_dependency(self, name_in_toml, src.id[1], src.cx, kind)

\* TomlDependencyDetails::to_dependency
Details_to_dependency(self, name_in_toml, c, kind) ==
  dependency_on_source(self, name_in_toml, new_source_id(self, prelude_warnings(self, c)), kind)

\* -------------------------------------------- DefinedTomlDependency

\* WorkspaceDetails of a dependency that is not workspace-delegated.
NoWorkspaceDetails == [features |-> None, optional |-> None]

\* DefinedTomlDependency::Simple / TomlDependency::Simple
Simple(s) == [tag |-> "Simple", version |-> s, details |-> DetailsDefault, workspace |-> NoWorkspaceDetails]

\* DefinedTomlDependency::Detailed / TomlDependency::Detailed
Detailed(d) == [tag |-> "Detailed", version |-> <<>>, details |-> d, workspace |-> NoWorkspaceDetails]

\* TomlDependency::Workspace
Workspace(w) == [tag |-> "Workspace", version |-> <<>>, details |-> DetailsDefault, workspace |-> w]

\* DefinedTomlDependency::to_dependency: a Simple dependency is the details
\* with only its version set (lines 2282-2286).
to_dependency(self, name, c, kind) ==
  Details_to_dependency(IF self.tag = "Simple"
                        THEN [DetailsDefault EXCEPT !.version = Some(self.version)]
                        ELSE self.details,
                        name, c, kind)

\* DefinedTomlDependency::is_version_specified
is_version_specified(self) == IF self.tag = "Detailed" THEN is_some(self.details.version) ELSE TRUE

\* DefinedTomlDependency::is_optional
is_optional(self) == IF self.tag = "Detailed" THEN unwrap_or(self.details.optional, FALSE) ELSE FALSE

\* DefinedTomlDependency::features
dep_features(self) == IF self.tag = "Detailed" THEN self.details.features ELSE None

\* ------------------------------------------------------ canonicaliser

E_no_ws_entry_unnamed(name) == "could not find entry in [workspace.dependencies]"

\* Lines 2210-2215: the message carries the name of the dependency.
E_no_ws_entry(name) == "could not find entry in [workspace.dependencies] for " \o name

E_path_not_string == "could not convert path into String"

\* A canonicalisation result: a value, an error, or a panic.
Defined_ok(v) == [ok |-> TRUE, err |-> "", panic |-> FALSE, value |-> Some(v)]

Defined_err(e) == [ok |-> FALSE, err |-> e, panic |-> FALSE, value |-> None]

Defined_panic == [ok |-> FALSE, err |-> "", panic |-> TRUE, value |-> None]

\* OsString::into_string fails on a path with a component that is not UTF-8.
path_is_utf8(p) == \A i \in DOMAIN p : p[i] # "<non-utf8>"

\* Path::parent
path_parent(p) == IF p = <<>> THEN None ELSE Some(SubSeq(p, 1, Len(p) - 1))

\* join_relative_path: root_path.unwrap().parent().unwrap().join(relative_path)
join_relative_path(root_path, relative_path) ==
  IF is_none(root_path) THEN Defined_panic
  ELSE IF is_none(path_parent(root_path[1])) THEN Defined_panic
  ELSE LET joined == path_join(path_parent(root_path[1])[1], relative_path)
       IN IF path_is_utf8(joined) THEN Defined_ok(joined) ELSE Defined_err(E_path_not_string)

\* Vec::contains
vec_contains(v, f) == \E i \in DOMAIN v : v[i] = f

\* Lines 2255-2261: `result` starts as a clone of the first list and gets
\* each element of the second list it does not contain yet.
RECURSIVE extend_unique(_, _)
extend_unique(result, rest) ==
  IF rest = <<>> THEN result
  ELSE extend_unique(IF vec_contains(result, rest[1]) THEN result ELSE Append(result, rest[1]),
                     SubSeq(rest, 2, Len(rest)))

\* Lines 2251-2263: the match on (&details.features, &d.features), with
\* details the member's WorkspaceDetails and d the workspace entry.
merged_features(details_features, d_features) ==
  IF is_none(details_features) /\ is_none(d_features) THEN None
  ELSE IF is_none(d_features) THEN details_features
  ELSE IF is_none(details_features) THEN d_features
  ELSE Some(extend_unique(details_features[1], d_features[1]))

workspace_optional_first(details_optional, ws_optional) == or_else(ws_optional, details_optional)

\* Lines 2234 and 2264: details.optional.or_else(|| <the workspace entry's>).
inherited_optional(details_optional, ws_optional) == or_else(details_optional, ws_optional)

\* DefinedTomlDependency::from_workspace_dependency
from_workspace_dependency(details, ws_dep, root_path) ==
  IF ws_dep.tag = "Simple"
  THEN Defined_ok(Detailed(
         [DetailsDefault EXCEPT
            !.version = Some(ws_dep.version),
            !.features = or_else(details.features, dep_features(ws_dep)),
            !.optional = inherited_optional(details.optional, Some(is_optional(ws_dep)))]))
  ELSE LET d == ws_dep.details
           path == IF is_some(d.path) THEN join_relative_path(root_path, d.path[1])
                   ELSE Defined_ok(<<>>)
       IN IF ~path.ok THEN path
          ELSE Defined_ok(Detailed(
                 [version |-> d.version,
                  registry |-> d.registry,
                  registry_index |-> d.registry_index,
                  path |-> IF is_some(d.path) THEN path.value ELSE None,
                  git |-> d.git,
                  branch |-> d.branch,
                  tag |-> d.tag,
                  rev |-> d.rev,
                  features |-> merged_features(details.features, d.features),
                  optional |-> inherited_optional(details.optional, d.optional),
                  default_features |-> d.default_features,
                  default_features2 |-> d.default_features2,
                  package |-> d.package,
                  public |-> d.public]))

\* DefinedTomlDependency::from_toml_dependency; ws_deps is the workspace's
\* dependency map (a function on the names it declares).
from_toml_dependency(toml, name, ws_deps, root_path) ==
  IF toml.tag = "Simple" THEN Defined_ok(Simple(toml.version))
  ELSE IF toml.tag = "Detailed" THEN Defined_ok(Detailed(toml.details))
  ELSE IF name \notin DOMAIN ws_deps THEN Defined_err(E_no_ws_entry(name))
  ELSE from_workspace_dependency(toml.workspace, ws_deps[name], root_path)

\* The empty BTreeMap.
EmptyMap == [n \in {} |-> 0]

\* Lines 456-457: ws_dependencies.unwrap_or(&empty)
ws_deps_or_empty(ws_dependencies) == IF is_some(ws_dependencies) THEN ws_dependencies[1] ELSE EmptyMap

\* ------------------------------------------------------------ Context

\* The directory of the manifest being read (manifest_file.parent()).
package_root == <<"/", "ws", "member">>

\* The Context of lines 1671-1681, before any dependency is processed.
NewContext(source_id, feats) ==
  [deps |-> <<>>, source_id |-> source_id, nested_paths |-> <<>>, warnings |-> <<>>,
   platform |-> None, root |-> package_root, features |-> feats]

\* ----------------------------------------------- from_toml_manifest

\* The key order of a BTreeMap<String, _> over the names of the model.
NameOrder == <<"bar", "foo">>

Names == {NameOrder[i] : i \in DOMAIN NameOrder}

PlatformOrder == <<"cfg(unix)">>

Platforms == {PlatformOrder[i] : i \in DOMAIN PlatformOrder}

in_domain(m, k) == k \in DOMAIN m

\* BTreeMap::iter: the keys of a map in their order.
RECURSIVE keys_in(_, _)
keys_in(order, m) ==
  IF order = <<>> THEN <<>>
  ELSE IF in_domain(m, order[1]) THEN <<order[1]>> \o keys_in(Tail(order), m)
  ELSE keys_in(Tail(order), m)

\* map_btree over a dependency table with from_toml_dependency: the entries
\* are converted in key order and the first failure is the result.
\* collect::<Result<BTreeMap<_, _>, _>> (line 552): the first failure in
\* key order, or the map of the converted entries.
collect_entry(key, first, rest) ==
  IF ~first.ok THEN first
  ELSE IF ~rest.ok THEN rest
  ELSE Defined_ok([k \in {key} \cup DOMAIN rest.value[1] |->
                     IF k = key THEN first.value[1] ELSE rest.value[1][k]])

\* map_btree over a dependency table with from_toml_dependency.
RECURSIVE define_entries(_, _, _, _)
define_entries(m, keys, ws_deps, root_path) ==
  IF keys = <<>> THEN Defined_ok(EmptyMap)
  ELSE collect_entry(keys[1],
                     from_toml_dependency(m[keys[1]], keys[1], ws_deps, root_path),
                     define_entries(m, Tail(keys), ws_deps, root_path))

\* Lines 552-553: Ok(Some(map)), or the failure.
some_map(r) == IF r.ok THEN Defined_ok(r.value) ELSE r

\* to_defined_dependencies: Ok(None) for an absent table.
to_defined_dependencies(dependencies, ws_dependencies, root_path) ==
  IF is_none(dependencies) THEN Defined_ok(None)
  ELSE some_map(define_entries(dependencies[1], keys_in(NameOrder, dependencies[1]),
                               ws_deps_or_empty(ws_dependencies), root_path))

\* DefinedTomlPlatform::from_toml_platform
\* Lines 2591-2614: the `?` after each table, then the DefinedTomlPlatform.
DefinedTomlPlatform(deps, build, dev) ==
  IF ~deps.ok THEN deps
  ELSE IF ~build.ok THEN build
  ELSE IF ~dev.ok THEN dev
  ELSE Defined_ok([dependencies |-> deps.value[1], build_dependencies |-> build.value[1],
                   build_dependencies2 |-> None, dev_dependencies |-> dev.value[1],
                   dev_dependencies2 |-> None])

from_toml_platform(toml_platform, ws_deps, root_path) ==
  DefinedTomlPlatform(
    to_defined_dependencies(toml_platform.dependencies, Some(ws_deps), root_path),
    to_defined_dependencies(
      or_else(toml_platform.build_dependencies, toml_platform.build_dependencies2),
      Some(ws_deps), root_path),
    to_defined_dependencies(
      or_else(toml_platform.dev_dependencies, toml_platform.dev_dependencies2),
      Some(ws_deps), root_path))

\* to_defined_platform: map_btree over the `target` table.
RECURSIVE define_platforms(_, _, _, _)
define_platforms(m, keys, ws_deps, root_path) ==
  IF keys = <<>> THEN Defined_ok(EmptyMap)
  ELSE collect_entry(keys[1],
                     from_toml_platform(m[keys[1]], ws_deps, root_path),
                     define_platforms(m, Tail(keys), ws_deps, root_path))

to_defined_platform(toml_platform, ws_dependencies, root_path) ==
  IF is_none(toml_platform) THEN Defined_ok(None)
  ELSE some_map(define_platforms(toml_platform[1], keys_in(PlatformOrder, toml_platform[1]),
                                 ws_deps_or_empty(ws_dependencies), root_path))

\* DefinedTomlManifest::from_toml_manifest, its dependency tables: w is the
\* workspace context (find_workspace_root and the root's parse output).
DefinedTomlManifest(m, dependencies, dev_dependencies, build_dependencies, target) ==
  IF ~dependencies.ok THEN dependencies
  ELSE IF ~dev_dependencies.ok THEN dev_dependencies
  ELSE IF ~build_dependencies.ok THEN build_dependencies
  ELSE IF ~target.ok THEN target
  ELSE Defined_ok([dependencies |-> dependencies.value[1],
                   dev_dependencies |-> dev_dependencies.value[1],
                   build_dependencies |-> build_dependencies.value[1],
                   target |-> target.value[1],
                   replace |-> m.replace,
                   patch |-> m.patch])

from_toml_manifest(m, w) ==
  DefinedTomlManifest(
    m,
    to_defined_dependencies(m.dependencies, w.dependencies, w.root_path),
    to_defined_dependencies(or_else(m.dev_dependencies, m.dev_dependencies2),
                            w.dependencies, w.root_path),
    to_defined_dependencies(or_else(m.build_dependencies, m.build_dependencies2),
                            w.dependencies, w.root_path),
    to_defined_platform(m.target, w.dependencies, w.root_path))

\* ----------------------------------------------- into_real_manifest

E_different_sources == "has different source paths depending on the build target"

E_invalid_name == "invalid character in dependency name"

\* util::validate_package_name: a name of alphanumerics, - and _.
validate_package_name_ok(name) == name \in Names

Processed(c) == [ok |-> TRUE, err |-> "", cx |-> c]

NotProcessed(e, c) == [ok |-> FALSE, err |-> e, cx |-> c]

\* Lines 1692-1696: the loop of process_dependencies over a table.
RECURSIVE process_entries(_, _, _, _)

\* Lines 1693-1695: the record of one entry is validated and pushed, and the
\* loop goes on with the next entry.
push_dependency(r, dependencies, keys, kind) ==
  IF ~r.ok THEN NotProcessed(r.err, r.cx)
  ELSE IF ~validate_package_name_ok(dep_name_in_toml(r.dep[1])) THEN NotProcessed(E_invalid_name, r.cx)
  ELSE process_entries([r.cx EXCEPT !.deps = Append(@, r.dep[1])],
                       dependencies, Tail(keys), kind)

process_entries(c, dependencies, keys, kind) ==
  IF keys = <<>> THEN Processed(c)
  ELSE push_dependency(to_dependency(dependencies[keys[1]], keys[1], c, kind),
                       dependencies, keys, kind)

\* process_dependencies (lines 1683-1699): Ok(()) for an absent table.
process_dependencies(c, new_deps, kind) ==
  IF is_none(new_deps) THEN Processed(c)
  ELSE process_entries(c, new_deps[1], keys_in(NameOrder, new_deps[1]), kind)

\* One call of process_dependencies of lines 1708-1737: the table, the kind
\* it is processed with and the platform cx.platform holds during the call.
Group(table, kind, platform) == [table |-> table, kind |-> kind, platform |-> platform]

\* Lines 1721-1738: the three calls for each platform of `target`, in key order.
RECURSIVE platform_groups(_, _)
platform_groups(target, keys) ==
  IF keys = <<>> THEN <<>>
  ELSE LET platform == target[keys[1]]
       IN <<Group(platform.dependencies, None, Some(keys[1])),
            Group(or_else(platform.build_dependencies, platform.build_dependencies2),
                  Some("Build"), Some(keys[1])),
            Group(or_else(platform.dev_dependencies, platform.dev_dependencies2),
                  Some("Development"), Some(keys[1]))>>
            \o platform_groups(target, Tail(keys))

\* Lines 1701-1712: the [workspace.dependencies] of the workspace root are
\* processed into cx.deps before the package's own tables.
workspace_group(w) == <<Group(w.dependencies, None, None)>>

\* Lines 1708-1738: the calls of process_dependencies in the order made.
dependency_groups(me, w) ==
  workspace_group(w)
    \o <<Group(me.dependencies, None, None),
         Group(me.dev_dependencies, Some("Development"), None),
         Group(me.build_dependencies, Some("Build"), None)>>
    \o (IF is_none(me.target) THEN <<>>
        ELSE platform_groups(me.target[1], keys_in(PlatformOrder, me.target[1])))

\* The calls are made in turn on the one context; the first failure ends
\* into_real_manifest (the `?` after each call).
RECURSIVE process_groups(_, _)

next_group(r, groups) == IF r.ok THEN process_groups(r.cx, Tail(groups)) ELSE r

process_groups(c, groups) ==
  IF groups = <<>> THEN Processed(c)
  ELSE next_group(process_dependencies([c EXCEPT !.platform = groups[1].platform],
                                       groups[1].table, groups[1].kind),
                  groups)

\* Lines 1666-1742: every dependency table is materialised into cx.deps.
collect_dependencies(me, w, c) == process_groups(c, dependency_groups(me, w))

sources_never_differ(prev, source_id) == FALSE

\* Line 1749: prev.is_some() && prev != Some(dep.source_id())
sources_differ(prev, source_id) == is_some(prev) /\ prev # Some(source_id)

\* Lines 1744-1758: names_sources.insert returns the source recorded before
\* for the name; TRUE when no dependency name has two sources.
RECURSIVE names_sources_agree(_, _)
names_sources_agree(deps, names_sources) ==
  IF deps = <<>> THEN TRUE
  ELSE LET name == dep_name_in_toml(deps[1])
           prev == IF in_domain(names_sources, name) THEN Some(names_sources[name]) ELSE None
           inserted == [n \in DOMAIN names_sources \cup {name} |->
                          IF n = name THEN deps[1].source_id ELSE names_sources[n]]
       IN IF sources_differ(prev, deps[1].source_id) THEN FALSE
          ELSE names_sources_agree(Tail(deps), inserted)

\* DefinedTomlManifest::into_real_manifest, its dependency list: the tables
\* are materialised, then checked for one source per name.  The [replace]
\* and [patch] tables are absent in every input of the model.
check_names_sources(r) ==
  IF ~r.ok THEN r
  ELSE IF ~names_sources_agree(r.cx.deps, EmptyMap) THEN NotProcessed(E_different_sources, r.cx)
  ELSE r

into_real_manifest(me, w, c) == check_names_sources(collect_dependencies(me, w, c))

\* ------------------------------ materialising one dependency (SpecDep)

Versions == {None, Some(<<"1", ".", "0">>), Some(<<"1", ".", "0", "+", "b">>), Some(<<"?">>)}

Gits == {None, Some(<<"https://example.com/repo">>), Some(<<"https://example.com/repo", "#", "abc">>), Some(<<"not a url">>)}

Registries == {None, Some("alt"), Some("nosuch")}

RegistryIndexes == {None, Some(<<"https://index.example.com">>), Some(<<"not a url">>)}

Paths == {None, Some(<<"..", "sibling">>)}

Branches == {None, Some("main")}

Tags == {None, Some("v1")}

Revs == {None, Some("abc123")}

Packages == {None, Some("renamed")}

Publics == {None, Some(TRUE)}

Capabilities == {"rename_dependency", "public_dependency"}

DepKinds == {None, Some("Development"), Some("Build")}

PackageSources == {SourceId_for_path(package_root), SourceId_crates_io}

DetailsInputs ==
  {[DetailsDefault EXCEPT !.version = v, !.git = g, !.registry = r, !.registry_index = ri,
                          !.path = p, !.branch = b, !.tag = t, !.rev = rv,
                          !.package = pk, !.public = pb] :
     v \in Versions, g \in Gits, r \in Registries, ri \in RegistryIndexes, p \in Paths,
     b \in Branches, t \in Tags, rv \in Revs, pk \in Packages, pb \in Publics}

DepInputs == {Detailed(d) : d \in DetailsInputs} \cup {Simple(v[1]) : v \in Versions \ {None}}

NoWorkspace == [root_path |-> None, dependencies |-> None]

NoManifest == [raw |-> None, defined |-> None]

InitDep ==
  /\ pc = "to_dependency"
  /\ dep \in {[name |-> "foo", toml |-> d, defined |-> Some(d), kind |-> k] : d \in DepInputs, k \in DepKinds}
  /\ cx \in {NewContext(s, f) : s \in PackageSources, f \in SUBSET Capabilities}
  /\ ws = NoWorkspace
  /\ manifest = NoManifest
  /\ out = Err("", cx)

\* One call of DefinedTomlDependency::to_dependency on the context.
ToDependency ==
  /\ pc = "to_dependency"
  /\ out' = to_dependency(dep.defined[1], dep.name, cx, dep.kind)
  /\ cx' = out'.cx
  /\ pc' = "done"
  /\ UNCHANGED <<dep, ws, manifest>>

NextDep == ToDependency

SpecDep == InitDep /\ [][NextDep]_vars

\* ------------------- canonicalising one dependency (SpecWsDep)

MaxFeatures == 2

FeatureNames == {"a", "b"}

RECURSIVE SeqsUpTo(_, _)
SeqsUpTo(S, n) ==
  IF n = 0 THEN {<<>>}
  ELSE LET shorter == SeqsUpTo(S, n - 1)
       IN shorter \cup {Append(q, x) : q \in shorter, x \in S}

FeatureLists == {None} \cup {Some(q) : q \in SeqsUpTo(FeatureNames, MaxFeatures)}

Optionals == {None, Some(TRUE), Some(FALSE)}

\* What a member may write for a dependency.
RawInputs ==
  {Workspace([features |-> f, optional |-> o]) : f \in FeatureLists, o \in Optionals}
    \cup {Simple(<<"1", ".", "0">>),
          Detailed([DetailsDefault EXCEPT !.version = Some(<<"1", ".", "0">>), !.path = Some(<<"local">>)])}

\* What a workspace root may declare for a dependency.
WsEntries ==
  {Simple(<<"2", ".", "0">>)}
    \cup {Detailed([DetailsDefault EXCEPT !.version = v, !.optional = o, !.path = p, !.features = f]) :
            v \in {None, Some(<<"2", ".", "0">>)}, o \in Optionals,
            p \in {None, Some(<<"shared">>)}, f \in FeatureLists}

\* The manifest path of the workspace root, as find_workspace_root gives it.
RootPaths == {<<"/", "ws", "Cargo.toml">>, <<"/", "<non-utf8>", "Cargo.toml">>}

\* The workspace context of a member: no root, or a root with or without a
\* dependency map, which has or lacks an entry of the dependency's name.
WorkspaceInputs ==
  {NoWorkspace}
    \cup {[root_path |-> Some(r), dependencies |-> d] :
            r \in RootPaths,
            d \in {None, Some(EmptyMap)}
                    \cup {Some([n \in {"foo"} |-> e]) : e \in WsEntries}
                    \cup {Some([n \in {"bar"} |-> Simple(<<"2", ".", "0">>)])}}

InitWsDep ==
  /\ pc = "from_toml_dependency"
  /\ dep \in {[name |-> n, toml |-> t, defined |-> None, kind |-> None] : n \in Names, t \in RawInputs}
  /\ ws \in WorkspaceInputs
  /\ cx = NewContext(SourceId_for_path(package_root), {})
  /\ manifest = NoManifest
  /\ out = Defined_err("")

\* One call of DefinedTomlDependency::from_toml_dependency, as
\* to_defined_dependencies makes it for an entry of a dependency table.
FromTomlDependency ==
  /\ pc = "from_toml_dependency"
  /\ out' = from_toml_dependency(dep.toml, dep.name, ws_deps_or_empty(ws.dependencies), ws.root_path)
  /\ dep' = [dep EXCEPT !.defined = out'.value]
  /\ pc' = IF out'.ok THEN "to_dependency" ELSE IF out'.panic THEN "panicked" ELSE "failed"
  /\ UNCHANGED <<cx, ws, manifest>>

NextWsDep == FromTomlDependency \/ ToDependency

SpecWsDep == InitWsDep /\ [][NextWsDep]_vars

\* ------------------------------------ reading a package manifest (Spec)

MaxEntries == 2

\* The dependency tables of a manifest: the three top-level ones and the
\* three of a platform of `target`.
SlotOrder ==
  <<"dependencies", "dev_dependencies", "build_dependencies",
    "target.dependencies", "target.build_dependencies", "target.dev_dependencies">>

\* What the manifest of the model may write for a dependency.
ManifestDeps ==
  {Simple(<<"1", ".", "0">>),
   Detailed([DetailsDefault EXCEPT !.path = Some(<<"a">>)]),
   Detailed([DetailsDefault EXCEPT !.path = Some(<<".", "a">>)]),
   Detailed([DetailsDefault EXCEPT !.git = Some(<<"https://example.com/repo">>), !.registry = Some("alt")]),
   Workspace(NoWorkspaceDetails)}

\* One entry of one table: <<table, name, dependency>>, the table and the
\* name given by their places in SlotOrder and NameOrder.
Decls == (DOMAIN SlotOrder) \X (DOMAIN NameOrder) \X ManifestDeps

\* e1 is declared before e2: in an earlier table, or under an earlier name.
DeclBefore(e1, e2) == e1[1] < e2[1] \/ (e1[1] = e2[1] /\ e1[2] < e2[2])

\* The lists of at most n entries, in declaration order, with one entry per
\* table and name.
RECURSIVE DeclLists(_)
DeclLists(n) ==
  IF n = 0 THEN {<<>>}
  ELSE LET shorter == DeclLists(n - 1)
       IN shorter \cup {Append(q, e) : q \in {x \in shorter : Len(x) = n - 1},
                                       e \in Decls}

DeclSets ==
  {E \in DeclLists(MaxEntries) : \A i \in DOMAIN E : i = 1 \/ DeclBefore(E[i - 1], E[i])}

\* The table `slot` of the manifest that declares E: None when it is empty.
Table(E, slot) ==
  LET here == {i \in DOMAIN E : SlotOrder[E[i][1]] = slot}
  IN IF here = {} THEN None
     ELSE Some([n \in {NameOrder[E[i][2]] : i \in here} |->
                  E[CHOOSE i \in here : NameOrder[E[i][2]] = n][3]])

\* The TomlManifest that declares E.
ManifestOf(E) ==
  [dependencies |-> Table(E, "dependencies"),
   dev_dependencies |-> Table(E, "dev_dependencies"),
   dev_dependencies2 |-> None,
   build_dependencies |-> Table(E, "build_dependencies"),
   build_dependencies2 |-> None,
   target |-> IF \E i \in DOMAIN E : SlotOrder[E[i][1]] \in {"target.dependencies", "target.build_dependencies", "target.dev_dependencies"}
              THEN Some([p \in Platforms |->
                           [dependencies |-> Table(E, "target.dependencies"),
                            build_dependencies |-> Table(E, "target.build_dependencies"),
                            build_dependencies2 |-> None,
                            dev_dependencies |-> Table(E, "target.dev_dependencies"),
                            dev_dependencies2 |-> None]])
              ELSE None,
   replace |-> None,
   patch |-> None]

\* The workspace contexts of the manifest: none, or a root whose
\* [workspace.dependencies] declares `foo`, or `bar` and `foo`.
ManifestWorkspaces ==
  {NoWorkspace}
    \cup {[root_path |-> Some(<<"/", "ws", "Cargo.toml">>), dependencies |-> d] :
            d \in {Some([n \in {"foo"} |-> Simple(<<"2", ".", "0">>)]),
                   Some([n \in {"foo"} |-> Detailed([DetailsDefault EXCEPT !.path = Some(<<"member", "a">>)])]),
                   Some([n \in {"foo"} |-> Detailed([DetailsDefault EXCEPT !.git = Some(<<"https://example.com/repo">>)])]),
                   Some([n \in Names |-> Simple(<<"2", ".", "0">>)])}}

NoDep == [name |-> "", toml |-> Simple(<<>>), defined |-> None, kind |-> None]

Init ==
  /\ pc = "from_toml_manifest"
  /\ manifest \in {[raw |-> Some(ManifestOf(E)), defined |-> None] : E \in DeclSets}
  /\ ws \in ManifestWorkspaces
  /\ cx = NewContext(SourceId_for_path(package_root), {})
  /\ dep = NoDep
  /\ out = Defined_err("")

\* do_read_manifest, lines 59-63: the descriptor is canonicalised.
FromTomlManifest ==
  /\ pc = "from_toml_manifest"
  /\ out' = from_toml_manifest(manifest.raw[1], ws)
  /\ manifest' = [manifest EXCEPT !.defined = out'.value]
  /\ pc' = IF out'.ok THEN "into_real_manifest" ELSE IF out'.panic THEN "panicked" ELSE "failed"
  /\ UNCHANGED <<dep, cx, ws>>

\* do_read_manifest, lines 89-91: the canonical descriptor is assembled.
IntoRealManifest ==
  /\ pc = "into_real_manifest"
  /\ out' = into_real_manifest(manifest.defined[1], ws, cx)
  /\ cx' = out'.cx
  /\ pc' = IF out'.ok THEN "done" ELSE "failed"
  /\ UNCHANGED <<dep, manifest, ws>>

Next == FromTomlManifest \/ IntoRealManifest

Spec == Init /\ [][Next]_vars

\* ------------------------------------------------ claims on to_dependency

\* The keys of the dependency that ToDependency materialised.
Keys ==
  IF dep.defined[1].tag = "Simple"
  THEN [DetailsDefault EXCEPT !.version = Some(dep.defined[1].version)]
  ELSE dep.defined[1].details

Materialised == pc = "done" /\ dep.toml.tag # "Workspace"

Warned(msg) == \E i \in DOMAIN cx.warnings : cx.warnings[i] = msg

\* The failure causes of to_dependency that do not depend on which source
\* keys are combined: an unparsable version requirement, a registry the
\* configuration does not know, an unparsable registry index, a rename or a
\* `public` key without its capability, `public` on a non-normal dependency.
RecordCausesAbsent ==
  /\ is_some(Keys.version) => Keys.version[1][1] \in {"0", "1", "2"}
  /\ is_some(Keys.registry) => Keys.registry[1] = "alt"
  /\ is_some(Keys.registry_index) => Keys.registry_index[1][1] = "https://index.example.com"
  /\ is_some(Keys.package) => "rename_dependency" \in cx.features
  /\ is_some(Keys.public) => ("public_dependency" \in cx.features /\ dep.kind = None)

\* C1: to_dependency returns an error and produces no dependency record for
\* every dependency that sets git with registry, git with registry-index, or
\* registry with registry-index, whatever the other keys are.
C1_AmbiguousSourceIsError ==
  (Materialised /\ \/ (Keys.git # None /\ Keys.registry # None)
                   \/ (Keys.git # None /\ Keys.registry_index # None)
                   \/ (Keys.registry # None /\ Keys.registry_index # None))
    => (~out.ok /\ out.dep = None /\ cx.deps = <<>>
        /\ out.err \in {E_git_or_registry, E_registry_or_index})

C1_Witness ==
  /\ Materialised /\ ~out.ok /\ out.err = E_git_or_registry
  /\ Keys.git # None /\ Keys.registry = None /\ Keys.registry_index # None
  /\ Keys.path # None /\ Keys.version # None

\* C2 as stated: to_dependency succeeds only for a dependency on which at
\* most one of path, git, registry, registry-index is set.
C2_AtMostOneOfFourKeys ==
  (Materialised /\ out.ok)
    => Cardinality({k \in {"path", "git", "registry", "registry_index"} : Keys[k] # None}) <= 1

\* C2 as amended: to_dependency succeeds only for a dependency on which at
\* most one of git, registry, registry-index is set; path may accompany any
\* one of them: with git the identity is the git one and an ambiguity warning
\* is pushed, without git the identity is the path-derived one, and whether
\* the call succeeds is then decided by the record causes alone.
C2_AtMostOneOfGitRegistryIndex ==
  /\ (Materialised /\ out.ok)
       => Cardinality({k \in {"git", "registry", "registry_index"} : Keys[k] # None}) <= 1
  /\ (Materialised /\ out.ok /\ Keys.path # None /\ Keys.git # None)
       => (out.dep[1].source_id.kind = "git" /\ Warned(W_git_or_path))
  /\ (Materialised /\ Keys.path # None /\ Keys.git = None
        /\ ~(Keys.registry # None /\ Keys.registry_index # None))
       => /\ out.ok <=> RecordCausesAbsent
          /\ out.ok => out.dep[1].source_id =
                         IF cx.source_id.kind = "path"
                         THEN [kind |-> "path", url |-> <<"/", "ws", "sibling">>, reference |-> None]
                         ELSE cx.source_id

C2_Witness ==
  /\ Materialised /\ out.ok
  /\ Keys.path # None /\ Keys.registry # None /\ Keys.git = None
  /\ out.dep[1].source_id.kind = "path"

\* The dependency { git = "https://example.com/repo", tag = "v1", branch = "main" }.
ScenarioC ==
  /\ dep.toml.tag = "Detailed"
  /\ Keys = [DetailsDefault EXCEPT !.git = Some(<<"https://example.com/repo">>),
                                   !.tag = Some("v1"), !.branch = Some("main")]

\* C3 as stated: for { git, tag = "v1", branch = "main" } to_dependency
\* succeeds, pushes an ambiguity warning, and the reference is the tag "v1".
C3_ScenarioCReferenceIsTag ==
  (Materialised /\ ScenarioC)
    => (out.ok /\ Warned(W_branch_tag_rev)
        /\ out.dep[1].source_id.reference = <<"tag", "v1">>)

\* C3 as amended: for { git, tag = "v1", branch = "main" } to_dependency
\* succeeds, pushes an ambiguity warning, and the reference is the branch
\* "main".
C3_ScenarioCReferenceIsBranch ==
  (Materialised /\ ScenarioC)
    => (out.ok /\ Warned(W_branch_tag_rev)
        /\ out.dep[1].source_id.kind = "git"
        /\ out.dep[1].source_id.reference = <<"branch", "main">>)

C3_Witness ==
  /\ Materialised /\ ScenarioC /\ out.ok
  /\ cx.warnings = <<W_branch_tag_rev>>

\* C4: for every dependency with a git location, the reference kind is the
\* first key set in the order branch, tag, rev, and it is the default
\* branch exactly when none of them is set.
C4_ReferencePrecedence ==
  (Materialised /\ out.ok /\ Keys.git # None)
    => LET ref == out.dep[1].source_id.reference
       IN /\ out.dep[1].source_id.kind = "git"
          /\ Keys.branch # None => ref = <<"branch", Keys.branch[1]>>
          /\ (Keys.branch = None /\ Keys.tag # None) => ref = <<"tag", Keys.tag[1]>>
          /\ (Keys.branch = None /\ Keys.tag = None /\ Keys.rev # None) => ref = <<"rev", Keys.rev[1]>>
          /\ ref = <<"default_branch">>
               <=> (Keys.branch = None /\ Keys.tag = None /\ Keys.rev = None)

C4_Witness ==
  /\ Materialised /\ out.ok /\ Keys.git # None
  /\ Keys.branch = None /\ Keys.tag # None /\ Keys.rev # None
  /\ out.dep[1].source_id.reference = <<"tag", "v1">>

\* C5: for every dependency with a git location, no registry and no
\* registry-index key, and two or more of branch, tag, rev set, to_dependency
\* pushes the warning that only one of branch, tag or rev is allowed, and the
\* multiplicity never makes it fail: it succeeds unless the git URL does not
\* parse or a record cause is present.
C5_MultipleReferencesWarnOnly ==
  (Materialised /\ Keys.git # None /\ Keys.registry = None /\ Keys.registry_index = None
     /\ Cardinality({k \in {"branch", "tag", "rev"} : Keys[k] # None}) >= 2)
    => /\ Warned(W_branch_tag_rev)
       /\ out.ok <=> (Keys.git[1][1] = "https://example.com/repo" /\ RecordCausesAbsent)

C5_Witness ==
  /\ Materialised /\ out.ok /\ Keys.git # None
  /\ Keys.branch = None /\ Keys.tag # None /\ Keys.rev # None
  /\ Warned(W_branch_tag_rev) /\ Keys.version # None

\* C6: for every dependency with neither git nor path: with only `registry`
\* set the source identity is the alternate registry of that name, with only
\* `registry-index` set it is the registry of that URL, with neither it is
\* the default registry, and the declared version requirement is kept; so
\* { version = "1.0" } gives the default registry and the requirement "1.0".
C6_RegistrySource ==
  /\ (Materialised /\ out.ok /\ Keys.git = None /\ Keys.path = None)
       => LET d == out.dep[1]
          IN /\ Keys.registry # None
                  => (d.source_id.kind = "alt_registry" /\ d.source_id.url = <<Keys.registry[1]>>)
             /\ Keys.registry_index # None
                  => (d.source_id.kind = "registry" /\ d.source_id.url = <<Keys.registry_index[1][1]>>)
             /\ (Keys.registry = None /\ Keys.registry_index = None)
                  => d.source_id.kind = "crates_io"
             /\ d.version_req = Keys.version
  /\ (Materialised /\ Keys = [DetailsDefault EXCEPT !.version = Some(<<"1", ".", "0">>)])
       => (out.ok /\ out.dep[1].source_id.kind = "crates_io"
           /\ out.dep[1].version_req = Some(<<"1", ".", "0">>) /\ cx.warnings = <<>>)

C6_Witness ==
  /\ Materialised /\ out.ok /\ Keys.git = None /\ Keys.path = None
  /\ Keys.registry = None /\ Keys.registry_index # None
  /\ out.dep[1].source_id.kind = "registry"

\* ------------------------------- claims on from_workspace_dependency

\* The member wrote { workspace = true, .. } and the entry was resolved.
Delegated == pc \in {"to_dependency", "done"} /\ dep.toml.tag = "Workspace"

WsEntry == ws.dependencies[1][dep.name]

Canonical == dep.defined[1].details

\* `base` followed by the elements of `extra` that are not in it yet, in the
\* order of `extra`, each once.
RECURSIVE UnionInOrder(_, _)
UnionInOrder(base, extra) ==
  IF extra = <<>> THEN base
  ELSE UnionInOrder(IF \E i \in DOMAIN base : base[i] = extra[1] THEN base ELSE base \o <<extra[1]>>,
                    Tail(extra))

\* C9: when a member dependency is workspace-delegated and both the member
\* and the workspace entry set a feature list, the canonical feature list is
\* the workspace entry's list in its order followed by the member features
\* that are not already in it, in the member's order.
C9_WorkspaceFeaturesFirst ==
  (Delegated /\ WsEntry.tag = "Detailed" /\ dep.toml.workspace.features # None
     /\ WsEntry.details.features # None)
    => Canonical.features
         = Some(UnionInOrder(WsEntry.details.features[1], dep.toml.workspace.features[1]))

\* C10: for a workspace-delegated dependency the canonical optional value is
\* the member's when the member specifies one and the workspace entry's
\* otherwise, and the version is the workspace entry's; so workspace
\* foo = "2.0" with member { workspace = true, optional = true } yields
\* version "2.0" and optional = true.
C10_OptionalAndVersion ==
  /\ Delegated
       => /\ dep.defined[1].tag = "Detailed"
          /\ dep.toml.workspace.optional # None
               => Canonical.optional = dep.toml.workspace.optional
          /\ dep.toml.workspace.optional = None
               => (IF Canonical.optional = None THEN FALSE ELSE Canonical.optional[1])
                    = (WsEntry.tag = "Detailed" /\ WsEntry.details.optional = Some(TRUE))
          /\ Canonical.version
               = IF WsEntry.tag = "Simple" THEN Some(WsEntry.version) ELSE WsEntry.details.version
          /\ pc = "done" /\ out.ok
               => out.dep[1].optional = (Canonical.optional = Some(TRUE))
  /\ (pc # "from_toml_dependency" /\ dep.name = "foo"
        /\ ws.dependencies = Some([n \in {"foo"} |-> Simple(<<"2", ".", "0">>)])
        /\ dep.toml = Workspace([features |-> None, optional |-> Some(TRUE)]))
       => (Delegated /\ Canonical.version = Some(<<"2", ".", "0">>)
           /\ Canonical.optional = Some(TRUE))

C10_Witness ==
  /\ Delegated /\ pc = "done" /\ out.ok
  /\ dep.toml.workspace.optional = None
  /\ WsEntry.tag = "Detailed" /\ WsEntry.details.optional = Some(TRUE)
  /\ out.dep[1].optional = TRUE
  /\ Canonical.version = Some(<<"2", ".", "0">>)

\* ----------------------------------------- claims on into_real_manifest

\* into_real_manifest returned a manifest; cx.deps is its dependency list.
Assembled == pc = "done" /\ manifest.defined # None

\* into_real_manifest returned an error.
NotAssembled == pc = "failed" /\ manifest.defined # None

RecordName(d) == IF d.explicit_name_in_toml # None THEN d.explicit_name_in_toml[1] ELSE d.name

\* C7: within the dependency list of a manifest that into_real_manifest
\* returns, all records of one in-document name have the same source
\* identity; when two records of one name have different source identities
\* into_real_manifest fails, and it fails with that error only then.
C7_OneSourcePerName ==
  /\ Assembled
       => \A i, j \in DOMAIN cx.deps :
            RecordName(cx.deps[i]) = RecordName(cx.deps[j])
              => cx.deps[i].source_id = cx.deps[j].source_id
  /\ (NotAssembled /\ out.err = E_different_sources)
       => \E i, j \in DOMAIN cx.deps :
            /\ RecordName(cx.deps[i]) = RecordName(cx.deps[j])
            /\ cx.deps[i].source_id # cx.deps[j].source_id

C7_Witness ==
  /\ Assembled
  /\ \E i, j \in DOMAIN cx.deps :
       /\ i # j
       /\ RecordName(cx.deps[i]) = RecordName(cx.deps[j])
       /\ cx.deps[i].platform = None /\ cx.deps[j].platform # None
       /\ cx.deps[i].source_id.kind = "path"

\* The entries of the package's own canonical tables: <<name, kind, platform>>.
TableKeys(table, kind, platform) ==
  IF table = None THEN {} ELSE {<<n, kind, platform>> : n \in DOMAIN table[1]}

OwnEntries ==
  LET me == manifest.defined[1]
  IN TableKeys(me.dependencies, "Normal", None)
       \cup TableKeys(me.dev_dependencies, "Development", None)
       \cup TableKeys(me.build_dependencies, "Build", None)
       \cup (IF me.target = None THEN {}
             ELSE UNION {TableKeys(me.target[1][p].dependencies, "Normal", Some(p))
                           \cup TableKeys(me.target[1][p].build_dependencies, "Build", Some(p))
                           \cup TableKeys(me.target[1][p].dev_dependencies, "Development", Some(p)) :
                         p \in DOMAIN me.target[1]})

\* C8: the dependency list of a manifest produced by into_real_manifest has
\* exactly one record for each entry of the package's own canonical tables
\* and no record for a name the package declares in none of them.
C8_RecordsAreOwnEntries ==
  Assembled
    => /\ Len(cx.deps) = Cardinality(OwnEntries)
       /\ {<<RecordName(cx.deps[i]), cx.deps[i].kind, cx.deps[i].platform>> : i \in DOMAIN cx.deps}
            = OwnEntries

\* ------------------------------------------ claims on from_toml_dependency

\* The workspace's shared dependency map has no entry of the dependency's name.
NoSharedEntry == ws.dependencies = None \/ dep.name \notin DOMAIN ws.dependencies[1]

\* C11: canonicalising a workspace-delegated dependency named N fails with
\* an error naming N whenever the workspace's shared dependency map has no
\* entry N, also when there is no workspace or the workspace declares no
\* dependency map; no canonical dependency is produced in its place.
C11_MissingEntryIsError ==
  (pc # "from_toml_dependency" /\ dep.toml.tag = "Workspace" /\ NoSharedEntry)
    => /\ pc = "failed"
       /\ ~out.ok /\ ~out.panic
       /\ out.err = "could not find entry in [workspace.dependencies] for " \o dep.name
       /\ dep.defined = None

C11_Witness ==
  /\ pc = "failed" /\ dep.toml.tag = "Workspace" /\ dep.name = "bar"
  /\ ws.root_path # None /\ ws.dependencies # None /\ DOMAIN ws.dependencies[1] = {"foo"}
  /\ out.err = E_no_ws_entry("bar")

\* ------------------------------------------------------ MaybeWorkspace

\* MaybeWorkspace::Workspace: the marker `{ workspace = true }`.
MaybeWorkspace_Workspace == [workspace |-> TRUE, defined |-> None]

\* MaybeWorkspace::Defined(x)
MaybeWorkspace_Defined(x) == [workspace |-> FALSE, defined |-> Some(x)]

\* StringOrBool::String(s)
StringOrBool_String(s) == [string |-> Some(s), bool |-> None]

\* StringOrBool::Bool(b)
StringOrBool_Bool(b) == [string |-> None, bool |-> Some(b)]

\* StringOrBool::string_or_default
string_or_default(self, default_value) ==
  IF is_some(self.string) THEN self.string
  ELSE IF self.bool[1] THEN Some(default_value)
  ELSE None

E_workspace_lacks(label) ==
  "error reading " \o label \o ": workspace root does not define [workspace." \o label \o "]"

E_no_workspace_root(label) == "error reading " \o label \o ": could not read workspace root"

\* Lines 1348-1350 and 1364-1366: the message of the readme and license-file arms.
E_does_not_defined(label) ==
  "error reading " \o label \o ": workspace root does not defined [workspace." \o label \o "]"

ws_default_workspace_first(value, workspace, f, label) ==
  IF is_none(value) THEN Defined_ok(None)
  ELSE IF is_some(workspace) /\ is_some(workspace[1][f]) THEN Defined_ok(workspace[1][f])
  ELSE IF ~value[1].workspace THEN Defined_ok(value[1].defined)
  ELSE Defined_err(E_no_workspace_root(label))

\* ws_default: value is the member's Option<MaybeWorkspace<T>>, workspace the
\* Option<&TomlWorkspace>, f the field the closure reads.
ws_default(value, workspace, f, label) ==
  IF is_none(value) THEN Defined_ok(None)
  ELSE IF ~value[1].workspace THEN Defined_ok(value[1].defined)
  ELSE IF is_some(workspace)
    THEN IF is_some(workspace[1][f]) THEN Defined_ok(workspace[1][f])
         ELSE Defined_err(E_workspace_lacks(label))
  ELSE Defined_err(E_no_workspace_root(label))

\* default_readme_from_package_root: the package directory of the model
\* holds none of the conventional README files.
default_readme_from_package_root == None

\* Lines 1352-1355: a README inherited from the workspace is joined to the
\* directory of the workspace root.
some_joined(r) == IF r.ok THEN Defined_ok(r.value) ELSE r

inherited_readme(ws_readme, root_path) ==
  IF is_none(ws_readme) THEN Defined_ok(None)
  ELSE some_joined(join_relative_path(root_path, ws_readme[1]))

\* Lines 1345-1357: the match on (project.readme, ws.and_then(|ws| ws.readme.as_ref())).
resolve_readme(value, workspace, root_path) ==
  IF is_none(value) THEN Defined_ok(default_readme_from_package_root)
  ELSE IF ~value[1].workspace
    THEN Defined_ok(string_or_default(value[1].defined[1], <<"README.md">>))
  ELSE IF is_none(workspace) THEN Defined_err(E_does_not_defined("readme"))
  ELSE IF is_none(workspace[1]["readme"]) THEN Defined_err(E_does_not_defined("readme"))
  ELSE inherited_readme(string_or_default(workspace[1]["readme"][1], <<"README.md">>), root_path)

\* Lines 1359-1371: the match on (project.license_file, ws.and_then(|ws| ws.license_file.as_ref())).
resolve_license_file(value, workspace, root_path) ==
  IF is_none(value) THEN Defined_ok(None)
  ELSE IF ~value[1].workspace THEN Defined_ok(value[1].defined)
  ELSE IF is_none(workspace) THEN Defined_err(E_does_not_defined("license-file"))
  ELSE IF is_none(workspace[1]["license-file"]) THEN Defined_err(E_does_not_defined("license-file"))
  ELSE some_joined(join_relative_path(root_path, workspace[1]["license-file"][1]))

\* The fields of from_toml_project in the order it resolves them.
ProjectFieldOrder ==
  <<"version", "edition", "authors", "publish", "description", "homepage", "documentation",
    "readme", "license-file", "keywords", "categories", "license", "repository">>

ProjectFields == {ProjectFieldOrder[i] : i \in DOMAIN ProjectFieldOrder}

\* The fields a package may delegate: those of the package section and badges.
DelegableFields == ProjectFields \cup {"badges"}

\* Lines 1336-1374: the resolution of one field of the package section.
resolve_field(f, project, workspace, root_path) ==
  IF f = "readme" THEN resolve_readme(project[f], workspace, root_path)
  ELSE IF f = "license-file" THEN resolve_license_file(project[f], workspace, root_path)
  ELSE ws_default(project[f], workspace, f, f)

RECURSIVE resolve_fields(_, _, _, _, _)

\* The `?` after the resolution of a field.
resolved_field(r, project, workspace, root_path, order, acc) ==
  IF ~r.ok THEN r
  ELSE resolve_fields(project, workspace, root_path, Tail(order),
                      [acc EXCEPT ![order[1]] = r.value[1]])

resolve_fields(project, workspace, root_path, order, acc) ==
  IF order = <<>> THEN Defined_ok(acc)
  ELSE resolved_field(resolve_field(order[1], project, workspace, root_path),
                      project, workspace, root_path, order, acc)

\* DefinedTomlPackage::from_toml_project, its delegable fields.
from_toml_project(project, workspace, root_path) ==
  resolve_fields(project, workspace, root_path, ProjectFieldOrder,
                 [f \in DelegableFields |-> None])

with_badges(package, badges) ==
  IF ~badges.ok THEN badges
  ELSE Defined_ok([package EXCEPT !["badges"] = badges.value[1]])

resolved_badges(package, m, w) ==
  IF ~package.ok THEN package
  ELSE with_badges(package.value[1], ws_default(m["badges"], w.workspace, "badges", "badges"))

\* DefinedTomlManifest::from_toml_manifest, lines 397-404: the package
\* section is resolved, then the badges.
from_toml_manifest_package(m, w) ==
  resolved_badges(from_toml_project(m, w.workspace, w.root_path), m, w)

\* ------------------------- resolving the package section (SpecPackage)

MaxSetFields == 2

\* What a member may write for a field other than version.
FieldChoices(f) ==
  IF f = "readme"
    THEN {Some(MaybeWorkspace_Workspace),
          Some(MaybeWorkspace_Defined(StringOrBool_String(<<"mine.md">>))),
          Some(MaybeWorkspace_Defined(StringOrBool_Bool(TRUE))),
          Some(MaybeWorkspace_Defined(StringOrBool_Bool(FALSE)))}
  ELSE IF f = "license-file"
    THEN {Some(MaybeWorkspace_Workspace), Some(MaybeWorkspace_Defined(<<"LICENSE-mine">>))}
  ELSE {Some(MaybeWorkspace_Workspace), Some(MaybeWorkspace_Defined("mine"))}

\* A package section that sets version (it is not optional) and nothing else.
BareProject(version) == [f \in DelegableFields |-> IF f = "version" THEN version ELSE None]

\* The package sections, with badges, that set at most n fields besides version.
RECURSIVE ProjectsSetting(_)
ProjectsSetting(n) ==
  IF n = 0
  THEN {BareProject(v) : v \in {Some(MaybeWorkspace_Workspace), Some(MaybeWorkspace_Defined("1.0.0"))}}
  ELSE LET fewer == ProjectsSetting(n - 1)
       IN fewer \cup UNION {{[p EXCEPT ![f] = c] : c \in FieldChoices(f)} :
                              p \in fewer, f \in DelegableFields \ {"version"}}

\* What the workspace root may declare for a field.
WorkspaceChoices(f) ==
  IF f = "readme"
    THEN {Some(StringOrBool_String(<<"shared.md">>)), Some(StringOrBool_Bool(TRUE)),
          Some(StringOrBool_Bool(FALSE))}
  ELSE IF f = "license-file" THEN {Some(<<"LICENSE-shared">>)}
  ELSE {Some("shared")}

EmptyWorkspaceTable == [f \in DelegableFields |-> None]

FullWorkspaceTable ==
  [f \in DelegableFields |->
     IF f = "readme" THEN Some(StringOrBool_String(<<"shared.md">>))
     ELSE IF f = "license-file" THEN Some(<<"LICENSE-shared">>)
     ELSE Some("shared")]

\* The [workspace] tables of the model: no inheritable field, one, or all.
WorkspaceTables ==
  {EmptyWorkspaceTable, FullWorkspaceTable}
    \cup UNION {{[EmptyWorkspaceTable EXCEPT ![f] = c] : c \in WorkspaceChoices(f)} :
                  f \in DelegableFields}

\* The workspace context of a package: no root, a root without a
\* [workspace] table, or a root with one.
PackageWorkspaces ==
  {[root_path |-> None, dependencies |-> None, workspace |-> None],
   [root_path |-> Some(<<"/", "ws", "Cargo.toml">>), dependencies |-> None, workspace |-> None]}
    \cup {[root_path |-> Some(<<"/", "ws", "Cargo.toml">>), dependencies |-> None, workspace |-> Some(t)] :
            t \in WorkspaceTables}

InitPackage ==
  /\ pc = "from_toml_project"
  /\ manifest \in {[raw |-> Some(p), defined |-> None] : p \in ProjectsSetting(MaxSetFields)}
  /\ ws \in PackageWorkspaces
  /\ cx = NewContext(SourceId_for_path(package_root), {})
  /\ dep = NoDep
  /\ out = Defined_err("")

\* from_toml_manifest, lines 397-404: the package section and the badges
\* are resolved against the workspace.
FromTomlProject ==
  /\ pc = "from_toml_project"
  /\ out' = from_toml_manifest_package(manifest.raw[1], ws)
  /\ manifest' = [manifest EXCEPT !.defined = out'.value]
  /\ pc' = IF out'.ok THEN "done" ELSE IF out'.panic THEN "panicked" ELSE "failed"
  /\ UNCHANGED <<dep, cx, ws>>

NextPackage == FromTomlProject

SpecPackage == InitPackage /\ [][NextPackage]_vars

\* --------------------------------------------- claims on field resolution

ResolutionOrder == ProjectFieldOrder \o <<"badges">>

Project == manifest.raw[1]

Resolved == manifest.defined[1]

\* The member wrote the delegation marker for f.
Marked(f) == Project[f] # None /\ Project[f][1].workspace

\* The member wrote an explicit value for f.
Explicit(f) == Project[f] # None /\ ~Project[f][1].workspace

\* The marker of f has nothing to resolve to.
Unresolvable(f) == Marked(f) /\ (ws.workspace = None \/ ws.workspace[1][f] = None)

\* f is the first field, in the order of resolution, whose marker cannot be resolved.
FirstUnresolvable(f) ==
  \E i \in DOMAIN ResolutionOrder :
    /\ ResolutionOrder[i] = f
    /\ Unresolvable(f)
    /\ \A j \in 1..(i - 1) : ~Unresolvable(ResolutionOrder[j])

\* The cause an error message about field f states.
SaysWorkspaceLacks(err, f) ==
  \/ err = "error reading " \o f \o ": workspace root does not define [workspace." \o f \o "]"
  \/ err = "error reading " \o f \o ": workspace root does not defined [workspace." \o f \o "]"

SaysNoWorkspace(err, f) == err = "error reading " \o f \o ": could not read workspace root"

\* C12: for every field that may be delegated, resolving a delegation
\* marker fails with an error that names the field and states the cause:
\* the workspace lacks the field when a workspace table exists without it,
\* and there is no workspace when no workspace table exists at all.
C12_ErrorNamesFieldAndCause ==
  \A f \in DelegableFields :
    (pc # "from_toml_project" /\ FirstUnresolvable(f))
      => /\ pc = "failed"
         /\ ws.workspace # None => SaysWorkspaceLacks(out.err, f)
         /\ ws.workspace = None => SaysNoWorkspace(out.err, f)

\* The explicit value the member wrote for f.
ExplicitValue(f) == Project[f][1].defined[1]

\* Some marker of the package cannot be resolved.
SomeUnresolvable == \E f \in DelegableFields : Unresolvable(f)

\* C13 as stated: resolving an explicit value Defined(x) always succeeds
\* and yields x, for every delegable field, whatever the workspace is; the
\* resolved readme, a string, is x when it is the string x wrote.
C13_DefinedYieldsItself ==
  /\ (pc # "from_toml_project" /\ ~SomeUnresolvable) => pc = "done"
  /\ pc = "done"
       => \A f \in DelegableFields :
            Explicit(f)
              => IF f = "readme"
                 THEN Resolved[f] # None /\ StringOrBool_String(Resolved[f][1]) = ExplicitValue(f)
                 ELSE Resolved[f] = Some(ExplicitValue(f))

\* C13, amended: resolving an explicit value always succeeds, whatever the
\* workspace is, and yields the value itself for every delegable field but
\* readme; an explicit readme yields its string, README.md when it is
\* `true`, and no readme when it is `false`.
C13_DefinedYieldsItsValue ==
  /\ (pc # "from_toml_project" /\ ~SomeUnresolvable) => pc = "done"
  /\ pc = "done"
       => \A f \in DelegableFields :
            Explicit(f)
              => IF f # "readme" THEN Resolved[f] = Some(ExplicitValue(f))
                 ELSE IF ExplicitValue(f).string # None THEN Resolved[f] = ExplicitValue(f).string
                 ELSE IF ExplicitValue(f).bool = Some(TRUE) THEN Resolved[f] = Some(<<"README.md">>)
                 ELSE Resolved[f] = None

C13_Witness ==
  /\ pc = "done"
  /\ Explicit("description") /\ Resolved["description"] = Some("mine")
  /\ ws.workspace # None /\ ws.workspace[1]["description"] = Some("shared")
  /\ Explicit("readme") /\ Resolved["readme"] = Some(<<"README.md">>)

\* ---------------------------------------------------------- TomlProfile

\* TomlProfile::default()
ProfileDefault ==
  [opt_level |-> None, lto |-> None, codegen_units |-> None, debug |-> None,
   debug_assertions |-> None, rpath |-> None, panic |-> None, overflow_checks |-> None,
   incremental |-> None, package |-> None, build_override |-> None, dir_name |-> None,
   inherits |-> None, strip |-> None]

\* A string as the sequence of its characters, and back.
RECURSIVE to_string(_)
to_string(chars) == IF chars = <<>> THEN "" ELSE chars[1] \o to_string(Tail(chars))

\* char::is_alphanumeric, on the characters of the model.
is_alphanumeric(ch) ==
  ch \in {"a", "b", "c", "d", "e", "f", "g", "h", "i", "j", "k", "l", "m", "n", "o", "p", "q",
          "r", "s", "t", "u", "v", "w", "x", "y", "z", "0", "1", "2", "3", "4", "5", "6", "7",
          "8", "9"}

\* Features::require: the capability must be enabled in the feature set.
Features_require(features, capability) == capability \in features

E_feature_required(capability) == "feature is required: " \o capability

\* A CargoResult<()> with the warnings as the call left them.
Valid(warnings) == [ok |-> TRUE, err |-> "", warnings |-> warnings]

Invalid(e, warnings) == [ok |-> FALSE, err |-> e, warnings |-> warnings]

W_profile_debug == "use [profile.dev] to configure debug builds"

W_profile_doc == "profile doc is deprecated and has no effect"

W_panic_ignored(name) == "panic setting is ignored for " \o to_string(name) \o " profile"

E_nested_package == "package-specific profiles cannot be nested"

E_nested_build_override == "build-override profiles cannot be nested"

E_may_not_be_specified(key, which) == key \o " may not be specified in a " \o which \o " profile"

E_invalid_character(ch, what, name) ==
  "Invalid character " \o ch \o " in " \o what \o ": " \o to_string(name)

E_invalid_name_of(what, name) == "Invalid " \o what \o ": " \o to_string(name)

E_invalid_panic(panic) ==
  "panic setting of " \o panic \o " is not a valid setting, must be unwind or abort"

validate_override_allowing_panic(self, which) ==
  IF is_some(self.package) THEN Invalid(E_nested_package, <<>>)
  ELSE IF is_some(self.build_override) THEN Invalid(E_nested_build_override, <<>>)
  ELSE IF is_some(self.lto) THEN Invalid(E_may_not_be_specified("lto", which), <<>>)
  ELSE IF is_some(self.rpath) THEN Invalid(E_may_not_be_specified("rpath", which), <<>>)
  ELSE Valid(<<>>)

\* TomlProfile::validate_override
validate_override(self, which) ==
  IF is_some(self.package) THEN Invalid(E_nested_package, <<>>)
  ELSE IF is_some(self.build_override) THEN Invalid(E_nested_build_override, <<>>)
  ELSE IF is_some(self.panic) THEN Invalid(E_may_not_be_specified("panic", which), <<>>)
  ELSE IF is_some(self.lto) THEN Invalid(E_may_not_be_specified("lto", which), <<>>)
  ELSE IF is_some(self.rpath) THEN Invalid(E_may_not_be_specified("rpath", which), <<>>)
  ELSE Valid(<<>>)

find_no_invalid_character(name) == None

\* Lines 819-822: the first character that is not alphanumeric, _ or -.
RECURSIVE find_invalid_character(_)
find_invalid_character(name) ==
  IF name = <<>> THEN None
  ELSE IF ~is_alphanumeric(name[1]) /\ name[1] # "_" /\ name[1] # "-" THEN Some(name[1])
  ELSE find_invalid_character(Tail(name))

invalid_character_of(ch, name, what) ==
  IF is_some(ch) THEN Invalid(E_invalid_character(ch[1], what, name), <<>>)
  ELSE IF name = <<"p", "a", "c", "k", "a", "g", "e">> \/ name = <<"b", "u", "i", "l", "d">>
    THEN Invalid(E_invalid_name_of(what, name), <<>>)
  ELSE IF name = <<"d", "e", "b", "u", "g">> /\ what = "profile"
    THEN Invalid(E_invalid_name_of(what, name), <<>>)
  ELSE IF name = <<"d", "o", "c">> /\ what = "dir-name"
    THEN Invalid(E_invalid_name_of(what, name), <<>>)
  ELSE Valid(<<>>)

\* TomlProfile::validate_name
validate_name(name, what) == invalid_character_of(find_invalid_character(name), name, what)

\* The first failure of a sequence of checks made in order (the `?` or
\* bail! after each), or success.
RECURSIVE first_failure(_)
first_failure(checks) ==
  IF checks = <<>> THEN Valid(<<>>)
  ELSE IF ~checks[1].ok THEN checks[1]
  ELSE first_failure(Tail(checks))

\* `if <used> { features.require(<capability>)?; }`
require_if(used, features, capability) ==
  IF used /\ ~Features_require(features, capability)
  THEN Invalid(E_feature_required(capability), <<>>)
  ELSE Valid(<<>>)

\* The key order of BTreeMap<ProfilePackageSpec, TomlProfile> over the
\* package specs of the model.
PackageSpecOrder == <<"bar", "foo">>

\* Lines 748-750: validate_override on each value of the package map.
RECURSIVE package_override_checks(_, _)
package_override_checks(packages, keys) ==
  IF keys = <<>> THEN <<>>
  ELSE <<validate_override(packages[keys[1]], "package")>>
         \o package_override_checks(packages, Tail(keys))

every_profile_name_is_builtin(name) == TRUE

\* Line 755: "dev" | "release" | "bench" | "test" | "doc"
is_builtin_profile_name(name) ==
  name \in {<<"d", "e", "v">>, <<"r", "e", "l", "e", "a", "s", "e">>, <<"b", "e", "n", "c", "h">>,
            <<"t", "e", "s", "t">>, <<"d", "o", "c">>}

\* Lines 742-787: the checks up to the validation of `inherits`.
structure_checks(self, name, features) ==
  <<require_if(is_some(self.build_override), features, "profile_overrides"),
    IF is_some(self.build_override) THEN validate_override(self.build_override[1], "build-override")
    ELSE Valid(<<>>),
    require_if(is_some(self.package), features, "profile_overrides"),
    IF is_some(self.package)
    THEN first_failure(package_override_checks(self.package[1], keys_in(PackageSpecOrder, self.package[1])))
    ELSE Valid(<<>>),
    require_if(~is_builtin_profile_name(name), features, "named_profiles"),
    validate_name(name, "profile name"),
    require_if(is_some(self.inherits), features, "named_profiles"),
    require_if(is_some(self.dir_name), features, "named_profiles"),
    IF is_some(self.dir_name) THEN validate_name(self.dir_name[1], "dir-name") ELSE Valid(<<>>),
    IF is_some(self.inherits) THEN validate_name(self.inherits[1], "inherits") ELSE Valid(<<>>)>>

\* Lines 789-799: the warnings that depend on the name of the profile.
name_warnings(self, name) ==
  IF name = <<"d", "o", "c">> THEN <<W_profile_doc>>
  ELSE IF (name = <<"t", "e", "s", "t">> \/ name = <<"b", "e", "n", "c", "h">>) /\ is_some(self.panic)
    THEN <<W_panic_ignored(name)>>
  ELSE <<>>

\* Lines 801-813: the panic strategy is a known one, and strip is gated.
setting_checks(self, features) ==
  <<IF is_some(self.panic) /\ self.panic[1] # "unwind" /\ self.panic[1] # "abort"
    THEN Invalid(E_invalid_panic(self.panic[1]), <<>>) ELSE Valid(<<>>),
    require_if(is_some(self.strip), features, "strip")>>

validated_settings(late, warnings) ==
  IF ~late.ok THEN Invalid(late.err, warnings) ELSE Valid(warnings)

validated_structure(early, self, name, features, warnings) ==
  IF ~early.ok THEN Invalid(early.err, warnings)
  ELSE validated_settings(first_failure(setting_checks(self, features)),
                          warnings \o name_warnings(self, name))

\* TomlProfile::validate
validate(self, name, features, warnings) ==
  validated_structure(first_failure(structure_checks(self, name, features)), self, name, features,
                      warnings \o (IF name = <<"d", "e", "b", "u", "g">> THEN <<W_profile_debug>> ELSE <<>>))

\* The key order of the profile table over the names of the model: the
\* order of the strings.
RECURSIVE TomlProfiles_validate(_, _, _, _)

validated_profile(r, profiles, names, features) ==
  IF ~r.ok THEN r ELSE TomlProfiles_validate(profiles, Tail(names), features, r.warnings)

\* TomlProfiles::validate: each profile of the table in key order.
TomlProfiles_validate(profiles, names, features, warnings) ==
  IF names = <<>> THEN Valid(warnings)
  ELSE validated_profile(validate(profiles[names[1]], names[1], features, warnings),
                         profiles, names, features)

\* ------------------------------ validating a profile table (SpecProfile)

MaxProfileKeys == 2

\* The profiles written as an override: nothing set, or one key.
OverrideProfiles ==
  {ProfileDefault,
   [ProfileDefault EXCEPT !.panic = Some("abort")],
   [ProfileDefault EXCEPT !.lto = Some("fat")],
   [ProfileDefault EXCEPT !.rpath = Some(TRUE)],
   [ProfileDefault EXCEPT !.strip = Some("symbols")],
   [ProfileDefault EXCEPT !.package = Some([k \in {"bar"} |-> ProfileDefault])],
   [ProfileDefault EXCEPT !.build_override = Some(ProfileDefault)]}

ProfileKeys ==
  {"opt_level", "lto", "rpath", "panic", "strip", "inherits", "dir_name", "package", "build_override"}

\* What a profile of the table may write for a key.
ProfileKeyChoices(key) ==
  IF key = "opt_level" THEN {Some("3")}
  ELSE IF key = "lto" THEN {Some("fat")}
  ELSE IF key = "rpath" THEN {Some(TRUE)}
  ELSE IF key = "panic" THEN {Some("abort"), Some("bogus")}
  ELSE IF key = "strip" THEN {Some("symbols")}
  ELSE IF key = "inherits" THEN {Some(<<"d", "e", "v">>), Some(<<"p", "a", "c", "k", "a", "g", "e">>)}
  ELSE IF key = "dir_name"
    THEN {Some(<<"o", "u", "t">>), Some(<<"d", "o", "c">>), Some(<<"p", "a", "c", "k", "a", "g", "e">>),
          Some(<<"a", "/", "b">>)}
  ELSE IF key = "package" THEN {Some([k \in {"foo"} |-> o]) : o \in OverrideProfiles}
  ELSE {Some(o) : o \in OverrideProfiles}

\* The profiles that set at most n keys.
RECURSIVE ProfilesSetting(_)
ProfilesSetting(n) ==
  IF n = 0 THEN {ProfileDefault}
  ELSE LET fewer == ProfilesSetting(n - 1)
       IN fewer \cup UNION {{[p EXCEPT ![key] = v] : v \in ProfileKeyChoices(key)} :
                              p \in fewer, key \in ProfileKeys}

\* The key order of the profile table: the names of the model as strings.
ProfileNameOrder ==
  <<<<"a", "/", "b">>, <<"b", "e", "n", "c", "h">>, <<"b", "u", "i", "l", "d">>,
    <<"d", "e", "b", "u", "g">>, <<"d", "e", "v">>, <<"d", "o", "c">>, <<"f", "a", "s", "t">>,
    <<"p", "a", "c", "k", "a", "g", "e">>, <<"r", "e", "l", "e", "a", "s", "e">>,
    <<"t", "e", "s", "t">>>>

ProfileNames == {ProfileNameOrder[i] : i \in DOMAIN ProfileNameOrder}

\* The profile tables of the model: one profile, alone or next to a
\* [profile.dev] that sets strip.
ProfileTables ==
  {[n \in {name} |-> p] : name \in ProfileNames, p \in ProfilesSetting(MaxProfileKeys)}
    \cup {[n \in {name, <<"d", "e", "v">>} |->
             IF n = name THEN p ELSE [ProfileDefault EXCEPT !.strip = Some("symbols")]] :
            name \in ProfileNames \ {<<"d", "e", "v">>}, p \in ProfilesSetting(MaxProfileKeys)}

ProfileCapabilities == {"profile_overrides", "named_profiles", "strip"}

InitProfile ==
  /\ pc = "validate"
  /\ manifest \in {[raw |-> Some(t), defined |-> None] : t \in ProfileTables}
  /\ cx \in {NewContext(SourceId_for_path(package_root), f) : f \in SUBSET ProfileCapabilities}
  /\ ws = NoWorkspace
  /\ dep = NoDep
  /\ out = Invalid("", <<>>)

\* into_real_manifest, lines 1801-1803: profiles.validate(&features, &mut warnings)
ValidateProfiles ==
  /\ pc = "validate"
  /\ out' = TomlProfiles_validate(manifest.raw[1], keys_in(ProfileNameOrder, manifest.raw[1]),
                                  cx.features, cx.warnings)
  /\ cx' = [cx EXCEPT !.warnings = out'.warnings]
  /\ pc' = IF out'.ok THEN "done" ELSE "failed"
  /\ UNCHANGED <<dep, manifest, ws>>

NextProfile == ValidateProfiles

SpecProfile == InitProfile /\ [][NextProfile]_vars

\* ------------------------------ claims about profile validation

\* The profile table being validated, and whether validation has run.
Profiles == manifest.raw[1]

Validated == pc \in {"done", "failed"}

ProfileRelease == <<"r", "e", "l", "e", "a", "s", "e">>

\* The override sets a key that validate_override refuses.
SetsRefusedKey(o) ==
  \/ is_some(o.package)
  \/ is_some(o.build_override)
  \/ is_some(o.panic)
  \/ is_some(o.lto)
  \/ is_some(o.rpath)

\* The overrides written in a profile: the build override and the values
\* of the package map.
OverridesOf(p) ==
  (IF is_some(p.build_override) THEN {p.build_override[1]} ELSE {})
    \cup (IF is_some(p.package) THEN {p.package[1][k] : k \in DOMAIN p.package[1]} ELSE {})

SomeOverrideSetsRefusedKey ==
  \E n \in DOMAIN Profiles : \E o \in OverridesOf(Profiles[n]) : SetsRefusedKey(o)

\* Scenario D: the table is [profile.release.package.foo] panic = "abort".
ScenarioD ==
  /\ DOMAIN Profiles = {ProfileRelease}
  /\ Profiles[ProfileRelease] =
       [ProfileDefault EXCEPT
          !.package = Some([k \in {"foo"} |-> [ProfileDefault EXCEPT !.panic = Some("abort")]])]

NamesPanicInPackageOverride == out.err = E_may_not_be_specified("panic", "package")

\* C14, as stated: validation fails for every table in which an override
\* sets a nested package map, a nested build override, panic, lto or rpath,
\* and in Scenario D the error names panic and the package override.
C14_OverrideErrorNamesPanic ==
  Validated =>
    /\ SomeOverrideSetsRefusedKey => ~out.ok
    /\ ScenarioD => ~out.ok /\ NamesPanicInPackageOverride

\* C14, amended: validation fails for every table in which an override sets
\* a refused key; in Scenario D the error names panic and the package
\* override when the profile-overrides capability is enabled, and is the
\* missing capability otherwise.
C14_OverrideRefusedKeysFail ==
  Validated =>
    /\ SomeOverrideSetsRefusedKey => ~out.ok
    /\ ScenarioD =>
         /\ ~out.ok
         /\ "profile_overrides" \in cx.features => NamesPanicInPackageOverride
         /\ "profile_overrides" \notin cx.features => out.err = E_feature_required("profile_overrides")

C14_Witness ==
  /\ pc = "failed"
  /\ ScenarioD
  /\ "profile_overrides" \in cx.features
  /\ NamesPanicInPackageOverride

\* Every profile record of the table: the top-level profiles and their
\* overrides.
ProfileRecords ==
  {Profiles[n] : n \in DOMAIN Profiles} \cup UNION {OverridesOf(Profiles[n]) : n \in DOMAIN Profiles}

\* C15: validation fails whenever a profile record of the table (top-level
\* profile, per-package override or build override) sets strip while the
\* strip capability is not enabled.
C15_StripNeedsCapability ==
  (Validated /\ "strip" \notin cx.features /\ \E p \in ProfileRecords : is_some(p.strip))
    => ~out.ok

ProfileDebug == <<"d", "e", "b", "u", "g">>

ProfileDoc == <<"d", "o", "c">>

ProfileTest == <<"t", "e", "s", "t">>

ProfileBench == <<"b", "e", "n", "c", "h">>

ProfileFast == <<"f", "a", "s", "t">>

\* The table holds the one profile p under the name n.
OnlyProfile(n, p) == DOMAIN Profiles = {n} /\ Profiles[n] = p

\* C16: the soft warnings are never fatal: [profile.debug] or [profile.doc]
\* with no field set, and [profile.test] or [profile.bench] with only a
\* valid panic, validate successfully with their warning added, whatever
\* the capability set.
C16_SoftWarningsAreNotFatal ==
  Validated =>
    /\ OnlyProfile(ProfileDebug, ProfileDefault) => out.ok /\ out.warnings = <<W_profile_debug>>
    /\ OnlyProfile(ProfileDoc, ProfileDefault) => out.ok /\ out.warnings = <<W_profile_doc>>
    /\ \A n \in {ProfileTest, ProfileBench} :
         OnlyProfile(n, [ProfileDefault EXCEPT !.panic = Some("abort")])
           => out.ok /\ out.warnings = <<W_panic_ignored(n)>>

\* The profile needs the named-profiles capability: its name is not a
\* built-in one, or it sets inherits or dir-name.
NeedsNamedProfiles(n) ==
  \/ n \notin {<<"d", "e", "v">>, ProfileRelease, ProfileBench, ProfileTest, ProfileDoc}
  \/ is_some(Profiles[n].inherits)
  \/ is_some(Profiles[n].dir_name)

\* C17: validation fails when a profile has a name outside {dev, release,
\* bench, test, doc}, or sets inherits or dir-name, and the named-profiles
\* capability is not enabled; with the capability enabled, none of the
\* three fails validation by itself.
C17_NamedProfilesCapability ==
  Validated =>
    /\ ("named_profiles" \notin cx.features /\ \E n \in DOMAIN Profiles : NeedsNamedProfiles(n))
         => ~out.ok
    /\ "named_profiles" \in cx.features =>
         /\ out.err # E_feature_required("named_profiles")
         /\ OnlyProfile(ProfileFast, ProfileDefault) => out.ok
         /\ OnlyProfile(ProfileRelease, [ProfileDefault EXCEPT !.inherits = Some(<<"d", "e", "v">>)])
              => out.ok
         /\ OnlyProfile(ProfileRelease, [ProfileDefault EXCEPT !.dir_name = Some(<<"o", "u", "t">>)])
              => out.ok

C17_Witness ==
  /\ pc = "failed"
  /\ "named_profiles" \notin cx.features
  /\ OnlyProfile(ProfileFast, ProfileDefault)
  /\ out.err = E_feature_required("named_profiles")

\* The name has a character that is not alphanumeric, _ or -, or is one of
\* the reserved names.
HasRefusedCharacter(x) ==
  \E i \in DOMAIN x : ~is_alphanumeric(x[i]) /\ x[i] # "_" /\ x[i] # "-"

IsReservedName(x) == x = <<"p", "a", "c", "k", "a", "g", "e">> \/ x = <<"b", "u", "i", "l", "d">>

\* The errors with which name validation rejects x as a `what`.
NameRejections(what, x) ==
  {E_invalid_name_of(what, x)} \cup {E_invalid_character(x[i], what, x) : i \in DOMAIN x}

\* Validation fails whenever a profile name or a dir-name has a refused
\* character or is reserved.
RefusedNamesFail ==
  \A n \in DOMAIN Profiles :
    /\ (HasRefusedCharacter(n) \/ IsReservedName(n)) => ~out.ok
    /\ is_some(Profiles[n].dir_name)
         => ((HasRefusedCharacter(Profiles[n].dir_name[1]) \/ IsReservedName(Profiles[n].dir_name[1]))
               => ~out.ok)

\* C18, as stated: validation fails whenever the profile name or the
\* dir-name has a character that is not alphanumeric, _ or -, or is exactly
\* package or build; a name of allowed characters that is not reserved is
\* never rejected by name validation.
C18_OnlyReservedNamesRejected ==
  Validated =>
    /\ RefusedNamesFail
    /\ \A n \in DOMAIN Profiles :
         /\ (~HasRefusedCharacter(n) /\ ~IsReservedName(n))
              => out.err \notin NameRejections("profile name", n)
         /\ is_some(Profiles[n].dir_name)
              => ((~HasRefusedCharacter(Profiles[n].dir_name[1]) /\ ~IsReservedName(Profiles[n].dir_name[1]))
                    => out.err \notin NameRejections("dir-name", Profiles[n].dir_name[1]))

\* C18, amended: as above, and validation also fails whenever the dir-name
\* is exactly doc; a dir-name is never rejected by name validation when it
\* has only allowed characters and is none of package, build and doc.
C18_ReservedNamesAndDocDirRejected ==
  Validated =>
    /\ RefusedNamesFail
    /\ \A n \in DOMAIN Profiles :
         /\ (~HasRefusedCharacter(n) /\ ~IsReservedName(n))
              => out.err \notin NameRejections("profile name", n)
         /\ is_some(Profiles[n].dir_name)
              => /\ Profiles[n].dir_name[1] = ProfileDoc => ~out.ok
                 /\ (/\ ~HasRefusedCharacter(Profiles[n].dir_name[1])
                     /\ ~IsReservedName(Profiles[n].dir_name[1])
                     /\ Profiles[n].dir_name[1] # ProfileDoc)
                      => out.err \notin NameRejections("dir-name", Profiles[n].dir_name[1])

C18_Witness ==
  /\ pc = "failed"
  /\ "named_profiles" \in cx.features
  /\ OnlyProfile(ProfileRelease, [ProfileDefault EXCEPT !.dir_name = Some(ProfileDoc)])
  /\ out.err = E_invalid_name_of("dir-name", ProfileDoc)

\* ------------------------------ TomlProfile::merge (SpecMerge)

overwrite_keeping_self(self_field, profile_field) ==
  IF is_some(self_field) THEN self_field ELSE profile_field

\* `if let Some(v) = &profile.<field> { self.<field> = Some(v.clone()); }`
overwrite(self_field, profile_field) ==
  IF is_some(profile_field) THEN profile_field ELSE self_field

RECURSIVE merge(_, _)

\* Lines 906-913: each (spec, profile) of other_package is merged into the
\* entry self_package has for spec, or inserted.
merge_entries(self_package, other_package) ==
  [spec \in (DOMAIN self_package) \cup (DOMAIN other_package) |->
     IF spec \notin DOMAIN other_package THEN self_package[spec]
     ELSE IF spec \in DOMAIN self_package THEN merge(self_package[spec], other_package[spec])
     ELSE other_package[spec]]

\* Lines 903-917
merge_package(self_package, other_package) ==
  IF ~is_some(other_package) THEN self_package
  ELSE IF is_some(self_package) THEN Some(merge_entries(self_package[1], other_package[1]))
  ELSE other_package

merge_build_override_nesting(self_bo, other_bo) ==
  IF ~is_some(other_bo) THEN self_bo
  ELSE IF is_some(self_bo) THEN Some([self_bo[1] EXCEPT !.build_override = other_bo])
  ELSE other_bo

\* Lines 919-924
merge_build_override(self_bo, other_bo) ==
  IF ~is_some(other_bo) THEN self_bo
  ELSE IF is_some(self_bo) THEN Some(merge(self_bo[1], other_bo[1]))
  ELSE other_bo

\* TomlProfile::merge: self after self.merge(profile).
merge(self, profile) ==
  [opt_level |-> overwrite(self.opt_level, profile.opt_level),
   lto |-> overwrite(self.lto, profile.lto),
   codegen_units |-> overwrite(self.codegen_units, profile.codegen_units),
   debug |-> overwrite(self.debug, profile.debug),
   debug_assertions |-> overwrite(self.debug_assertions, profile.debug_assertions),
   rpath |-> overwrite(self.rpath, profile.rpath),
   panic |-> overwrite(self.panic, profile.panic),
   overflow_checks |-> overwrite(self.overflow_checks, profile.overflow_checks),
   incremental |-> overwrite(self.incremental, profile.incremental),
   package |-> merge_package(self.package, profile.package),
   build_override |-> merge_build_override(self.build_override, profile.build_override),
   inherits |-> overwrite(self.inherits, profile.inherits),
   dir_name |-> overwrite(self.dir_name, profile.dir_name),
   strip |-> overwrite(self.strip, profile.strip)]

MaxMergeKeys == 1

ScalarFields ==
  {"opt_level", "lto", "codegen_units", "debug", "debug_assertions", "rpath", "panic",
   "overflow_checks", "incremental", "inherits", "dir_name", "strip"}

\* The overrides one side writes: its value v for a key, or nothing.
MergeOverrides(v) ==
  {ProfileDefault, [ProfileDefault EXCEPT !.opt_level = Some(v)],
   [ProfileDefault EXCEPT !.codegen_units = Some(v)], [ProfileDefault EXCEPT !.panic = Some(v)]}

\* What one side may write for a key, its scalar values being v.
MergeKeyChoices(key, v) ==
  IF key = "package"
    THEN {Some([k \in {"foo"} |-> o]) : o \in MergeOverrides(v)}
           \cup {Some([k \in {"bar"} |-> o]) : o \in MergeOverrides(v)}
           \cup {Some([k \in {"bar", "foo"} |-> IF k = "foo" THEN o ELSE ProfileDefault]) :
                   o \in MergeOverrides(v)}
  ELSE IF key = "build_override" THEN {Some(o) : o \in MergeOverrides(v)}
  ELSE {Some(v)}

\* The profiles that set at most n keys, with scalar values v.
RECURSIVE MergeProfiles(_, _)
MergeProfiles(n, v) ==
  IF n = 0 THEN {ProfileDefault}
  ELSE LET fewer == MergeProfiles(n - 1, v)
       IN fewer \cup UNION {{[p EXCEPT ![key] = c] : c \in MergeKeyChoices(key, v)} :
                              p \in fewer, key \in ScalarFields \cup {"package", "build_override"}}

InitMerge ==
  /\ pc = "merge"
  /\ manifest \in {[raw |-> Some(<<base, sub>>), defined |-> None] :
                     base \in MergeProfiles(MaxMergeKeys, "base"),
                     sub \in MergeProfiles(MaxMergeKeys, "sub")}
  /\ cx = NewContext(SourceId_for_path(package_root), {})
  /\ ws = NoWorkspace
  /\ dep = NoDep
  /\ out = [self |-> ProfileDefault, profile |-> ProfileDefault]

\* base.merge(&sub): out holds base and sub after the call.
Merge ==
  /\ pc = "merge"
  /\ out' = [self |-> merge(manifest.raw[1][1], manifest.raw[1][2]), profile |-> manifest.raw[1][2]]
  /\ pc' = "done"
  /\ UNCHANGED <<cx, dep, manifest, ws>>

NextMerge == Merge

SpecMerge == InitMerge /\ [][NextMerge]_vars

\* The keys of an optional package map.
SpecsOf(package) == IF is_some(package) THEN DOMAIN package[1] ELSE {}

\* m is what the claim says base.merge(sub) leaves in base.
RECURSIVE IsMergeOf(_, _, _)
IsMergeOf(m, base, sub) ==
  /\ \A f \in ScalarFields : m[f] = IF is_some(sub[f]) THEN sub[f] ELSE base[f]
  /\ is_some(m.package) <=> (is_some(base.package) \/ is_some(sub.package))
  /\ SpecsOf(m.package) = SpecsOf(base.package) \cup SpecsOf(sub.package)
  /\ \A k \in SpecsOf(m.package) :
       IF k \in SpecsOf(base.package) /\ k \in SpecsOf(sub.package)
       THEN IsMergeOf(m.package[1][k], base.package[1][k], sub.package[1][k])
       ELSE IF k \in SpecsOf(sub.package) THEN m.package[1][k] = sub.package[1][k]
       ELSE m.package[1][k] = base.package[1][k]
  /\ IF is_some(base.build_override) /\ is_some(sub.build_override)
     THEN is_some(m.build_override)
            /\ IsMergeOf(m.build_override[1], base.build_override[1], sub.build_override[1])
     ELSE IF is_some(sub.build_override) THEN m.build_override = sub.build_override
     ELSE m.build_override = base.build_override

\* C19: after base.merge(sub) every scalar field holds sub's value when sub
\* sets it and base's otherwise; the package map has the keys of both, a
\* common key holding the recursive merge, a key of sub only sub's entry
\* and a key of base only base's entry; the build override is merged the
\* same way; sub is as it was.
C19_MergeSubWins ==
  pc = "done" =>
    /\ IsMergeOf(out.self, manifest.raw[1][1], manifest.raw[1][2])
    /\ out.profile = manifest.raw[1][2]

\* base and sub both have a package map with foo, the two entries set
\* different keys, and the merged entry has both.
C19_Witness ==
  /\ pc = "done"
  /\ is_some(manifest.raw[1][1].package) /\ is_some(manifest.raw[1][2].package)
  /\ "foo" \in SpecsOf(manifest.raw[1][1].package) \cap SpecsOf(manifest.raw[1][2].package)
  /\ manifest.raw[1][1].package[1]["foo"].opt_level = Some("base")
  /\ manifest.raw[1][2].package[1]["foo"].codegen_units = Some("sub")
  /\ out.self.package[1]["foo"].opt_level = Some("base")
  /\ out.self.package[1]["foo"].codegen_units = Some("sub")

\* ------------------------------ into_real_manifest: the gated settings (SpecResolver)

E_resolver_in_both == "cannot specify resolver field in both [workspace] and [package]"

E_invalid_resolver(s) == "resolver setting " \o s \o " is not valid, valid options are 1 or 2"

Resolved_behavior(ok, err, behavior) == [ok |-> ok, err |-> err, resolve_behavior |-> behavior]

\* ResolveBehavior::from_manifest, of crate::core::resolver: "1" and "2"
\* name a behavior, anything else is an error.
ResolveBehavior_from_manifest(s) ==
  IF s = "1" THEN Resolved_behavior(TRUE, "", Some("V1"))
  ELSE IF s = "2" THEN Resolved_behavior(TRUE, "", Some("V2"))
  ELSE Resolved_behavior(FALSE, E_invalid_resolver(s), None)

\* me.workspace.as_ref().and_then(|ws| ws.resolver.as_ref())
workspace_resolver(workspace) == IF is_some(workspace) THEN workspace[1].resolver ELSE None

resolve_behavior_package_first(project_resolver, ws_resolver) ==
  IF ~is_some(project_resolver) /\ ~is_some(ws_resolver) THEN Resolved_behavior(TRUE, "", None)
  ELSE IF is_some(project_resolver) THEN ResolveBehavior_from_manifest(project_resolver[1])
  ELSE ResolveBehavior_from_manifest(ws_resolver[1])

\* Lines 1617-1626: the match on (project.resolver, workspace resolver).
resolve_behavior(project_resolver, ws_resolver) ==
  IF ~is_some(project_resolver) /\ ~is_some(ws_resolver) THEN Resolved_behavior(TRUE, "", None)
  ELSE IF is_some(project_resolver) /\ is_some(ws_resolver)
    THEN Resolved_behavior(FALSE, E_resolver_in_both, None)
  ELSE IF is_some(project_resolver) THEN ResolveBehavior_from_manifest(project_resolver[1])
  ELSE ResolveBehavior_from_manifest(ws_resolver[1])

\* Lines 1593-1615: the edition, metabuild and resolver gates.
gate_checks(project, workspace, features) ==
  <<IF is_some(project.edition) /\ ~Features_require(features, "edition")
    THEN Invalid("editions are unstable", <<>>) ELSE Valid(<<>>),
    IF is_some(project.edition) /\ project.edition[1] \notin {"2015", "2018"}
    THEN Invalid("failed to parse the edition key", <<>>) ELSE Valid(<<>>),
    require_if(is_some(project.metabuild), features, "metabuild"),
    require_if(is_some(project.resolver) \/ is_some(workspace_resolver(workspace)), features, "resolver")>>

gated_behavior(gates, project, workspace) ==
  IF ~gates.ok THEN Resolved_behavior(FALSE, gates.err, None)
  ELSE resolve_behavior(project.resolver, workspace_resolver(workspace))

\* into_real_manifest, lines 1593-1626, on the package and the [workspace]
\* table of the manifest being read.
gated_settings(me, features) ==
  gated_behavior(first_failure(gate_checks(me.package, me.workspace, features)), me.package, me.workspace)

ResolverSettings == {None, Some("1"), Some("2"), Some("3")}

\* The packages of the model: edition, metabuild and resolver as written.
GatedPackages ==
  {[edition |-> e, metabuild |-> m, resolver |-> r] :
     e \in {None, Some("2018"), Some("bogus")}, m \in {None, Some(<<"mb">>)}, r \in ResolverSettings}

\* The [workspace] table of the manifest: absent, or with its resolver.
GatedWorkspaces == {None} \cup {Some([resolver |-> r]) : r \in ResolverSettings}

GatedCapabilities == {"edition", "metabuild", "resolver"}

InitResolver ==
  /\ pc = "into_real_manifest"
  /\ manifest \in {[raw |-> None, defined |-> Some([package |-> p, workspace |-> w])] :
                     p \in GatedPackages, w \in GatedWorkspaces}
  /\ cx \in {NewContext(SourceId_for_path(package_root), f) : f \in SUBSET GatedCapabilities}
  /\ ws = NoWorkspace
  /\ dep = NoDep
  /\ out = Resolved_behavior(FALSE, "", None)

\* into_real_manifest on a manifest without targets, dependencies and
\* profiles: what remains are the gates and the resolver setting.
IntoRealManifestSettings ==
  /\ pc = "into_real_manifest"
  /\ out' = gated_settings(manifest.defined[1], cx.features)
  /\ pc' = IF out'.ok THEN "done" ELSE "failed"
  /\ UNCHANGED <<cx, dep, manifest, ws>>

NextResolver == IntoRealManifestSettings

SpecResolver == InitResolver /\ [][NextResolver]_vars

PackageSetsResolver == is_some(manifest.defined[1].package.resolver)

WorkspaceSetsResolver == is_some(workspace_resolver(manifest.defined[1].workspace))

\* C20: a resolver setting is accepted only when at most one of the package
\* and the [workspace] table sets it and the resolver capability is
\* enabled; into_real_manifest fails when both set it, and fails when
\* either sets it without the capability.
C20_ResolverOnOneSideWithCapability ==
  pc \in {"done", "failed"} =>
    /\ (out.ok /\ (PackageSetsResolver \/ WorkspaceSetsResolver))
         => /\ ~(PackageSetsResolver /\ WorkspaceSetsResolver)
            /\ "resolver" \in cx.features
    /\ (PackageSetsResolver /\ WorkspaceSetsResolver) => ~out.ok
    /\ ((PackageSetsResolver \/ WorkspaceSetsResolver) /\ "resolver" \notin cx.features) => ~out.ok

\* Both sides set the resolver with the capability enabled, and the
\* manifest is refused for that.
C20_Witness ==
  /\ pc = "failed"
  /\ PackageSetsResolver /\ WorkspaceSetsResolver
  /\ "resolver" \in cx.features
  /\ out.err = E_resolver_in_both

\* ------------------------------ claims about the warnings of to_dependency

\* How many times msg is in the collected warnings.
TimesWarned(msg) == Cardinality({i \in DOMAIN cx.warnings : cx.warnings[i] = msg})

\* No cause of failure is present: the source keys are not an ambiguous
\* combination, the git URL parses, and the causes unrelated to the source
\* keys are absent.
FailureCausesAbsent ==
  /\ RecordCausesAbsent
  /\ ~(is_some(Keys.registry) /\ is_some(Keys.registry_index))
  /\ is_some(Keys.git) =>
       /\ Keys.git[1][1] = "https://example.com/repo"
       /\ ~is_some(Keys.registry) /\ ~is_some(Keys.registry_index)

NoSourceGiven == ~is_some(Keys.version) /\ ~is_some(Keys.path) /\ ~is_some(Keys.git)

VersionHasMetadata == is_some(Keys.version) /\ \E i \in DOMAIN Keys.version[1] : Keys.version[1][i] = "+"

GitOnlyKeysWithoutGit == {k \in {"branch", "tag", "rev"} : ~is_some(Keys.git) /\ is_some(Keys[k])}

\* C24: a dependency with none of version, path and git, a version with a
\* `+`, and each of branch, tag, rev set without git, append their warning
\* (one per set key for the last), and to_dependency fails only for a
\* cause other than these.
C24_WarningsCollectedNotFatal ==
  Materialised =>
    /\ TimesWarned(W_no_source) = IF NoSourceGiven THEN 1 ELSE 0
    /\ TimesWarned(W_semver_metadata) = IF VersionHasMetadata THEN 1 ELSE 0
    /\ \A k \in {"branch", "tag", "rev"} :
         TimesWarned(W_key_ignored(k)) = IF k \in GitOnlyKeysWithoutGit THEN 1 ELSE 0
    /\ (NoSourceGiven \/ VersionHasMetadata \/ GitOnlyKeysWithoutGit # {})
         => (out.ok <=> FailureCausesAbsent)

\* No source key at all and branch, tag and rev set: four warnings, and
\* the dependency is materialised.
C24_Witness ==
  /\ Materialised /\ out.ok
  /\ NoSourceGiven
  /\ GitOnlyKeysWithoutGit = {"branch", "tag", "rev"}
  /\ cx.warnings = <<W_no_source, W_key_ignored("branch"), W_key_ignored("tag"), W_key_ignored("rev")>>

\* ------------------------------ merge and the restrictions on overrides

\* No override of the profile sets a key validate_override refuses.
OverridesAreValid(p) == \A o \in OverridesOf(p) : ~SetsRefusedKey(o)

\* C30: when no override of base and of sub (package.* entries and build
\* override) sets a nested package map, a nested build override, panic, lto
\* or rpath, no override of base after base.merge(sub) sets one, and each
\* passes validate_override.
C30_MergeKeepsOverridesValid ==
  (pc = "done" /\ OverridesAreValid(manifest.raw[1][1]) /\ OverridesAreValid(manifest.raw[1][2]))
    => /\ OverridesAreValid(out.self)
       /\ is_some(out.self.build_override)
            => validate_override(out.self.build_override[1], "build-override").ok
       /\ \A k \in SpecsOf(out.self.package) : validate_override(out.self.package[1][k], "package").ok

\* Both sides have a build override that sets something, and the merged
\* build override has both settings.
C30_Witness ==
  /\ pc = "done"
  /\ manifest.raw[1][1].build_override = Some([ProfileDefault EXCEPT !.opt_level = Some("base")])
  /\ manifest.raw[1][2].build_override = Some([ProfileDefault EXCEPT !.codegen_units = Some("sub")])
  /\ out.self.build_override =
       Some([ProfileDefault EXCEPT !.opt_level = Some("base"), !.codegen_units = Some("sub")])

\* ------------------------------ prepare_for_publish (SpecPublish)

\* The index URL SourceId::alt_registry gives for a configured registry.
registry_index_url(registry) == <<"https://index.example.com">>

\* map_dependency: path and git keys are dropped, a registry name becomes
\* its index URL, and a Simple dependency becomes a Detailed one.
map_dependency(v) ==
  IF v.tag = "Simple"
    THEN Defined_ok(Detailed([DetailsDefault EXCEPT !.version = Some(v.version)]))
  ELSE IF is_some(v.details.registry) /\ ~alt_registry_ok(v.details.registry[1])
    THEN Defined_err(E_no_registry)
  ELSE Defined_ok(Detailed(
         [v.details EXCEPT
            !.path = None, !.git = None, !.branch = None, !.tag = None, !.rev = None,
            !.registry = None,
            !.registry_index = IF is_some(v.details.registry)
                               THEN Some(registry_index_url(v.details.registry[1]))
                               ELSE v.details.registry_index]))

keeps_every_dependency(filter, v) == TRUE

\* The two filters prepare_for_publish passes to map_deps: `all`, and
\* DefinedTomlDependency::is_version_specified.
keeps(filter, v) == filter = "all" \/ is_version_specified(v)

\* Lines 503-507: the entries the filter keeps are mapped in key order.
RECURSIVE map_kept_entries(_, _, _)
map_kept_entries(deps, keys, filter) ==
  IF keys = <<>> THEN Defined_ok(EmptyMap)
  ELSE IF ~keeps(filter, deps[keys[1]]) THEN map_kept_entries(deps, Tail(keys), filter)
  ELSE collect_entry(keys[1], map_dependency(deps[keys[1]]),
                     map_kept_entries(deps, Tail(keys), filter))

\* map_deps
map_deps(deps, filter) ==
  IF is_none(deps) THEN Defined_ok(None)
  ELSE some_map(map_kept_entries(deps[1], keys_in(NameOrder, deps[1]), filter))

\* Lines 1530-1548: the `?` after each table of a platform.
published_platform(dependencies, dev_dependencies, build_dependencies) ==
  IF ~dependencies.ok THEN dependencies
  ELSE IF ~dev_dependencies.ok THEN dev_dependencies
  ELSE IF ~build_dependencies.ok THEN build_dependencies
  ELSE Defined_ok([dependencies |-> dependencies.value[1],
                   dev_dependencies |-> dev_dependencies.value[1],
                   dev_dependencies2 |-> None,
                   build_dependencies |-> build_dependencies.value[1],
                   build_dependencies2 |-> None])

\* Lines 1524-1551: the platforms of `target` in key order.
RECURSIVE publish_platforms(_, _)
publish_platforms(target, keys) ==
  IF keys = <<>> THEN Defined_ok(EmptyMap)
  ELSE collect_entry(
         keys[1],
         published_platform(
           map_deps(target[keys[1]].dependencies, "all"),
           map_deps(or_else(target[keys[1]].dev_dependencies, target[keys[1]].dev_dependencies2),
                    "is_version_specified"),
           map_deps(or_else(target[keys[1]].build_dependencies, target[keys[1]].build_dependencies2),
                    "all")),
         publish_platforms(target, Tail(keys)))

publish_target(target) ==
  IF is_none(target) THEN Defined_ok(None)
  ELSE some_map(publish_platforms(target[1], keys_in(PlatformOrder, target[1])))

\* Path::strip_prefix(base).is_ok()
starts_with(path, base) == Len(path) >= Len(base) /\ SubSeq(path, 1, Len(base)) = base

\* Path::file_name: None for a path that ends in `..`.
file_name(path) ==
  IF path = <<>> \/ path[Len(path)] = ".." \/ path[Len(path)] = "/" THEN None
  ELSE Some(path[Len(path)])

\* Lines 1491-1506: a license file outside the package root is renamed to
\* its file name, which is unwrapped.
publish_license_file(license_file) ==
  IF is_none(license_file) THEN Defined_ok(None)
  ELSE IF starts_with(normalize_path(path_join(package_root, license_file[1])), package_root)
    THEN Defined_ok(license_file)
  ELSE IF is_none(file_name(license_file[1])) THEN Defined_panic
  ELSE Defined_ok(Some(<<file_name(license_file[1])[1]>>))

\* Lines 1477-1489: `resolver` is added to cargo-features when the
\* workspace's resolve behavior is written to the package.
publish_cargo_features(cargo_features, resolver) ==
  IF is_none(resolver) THEN cargo_features
  ELSE IF is_none(cargo_features) THEN Some(<<"resolver">>)
  ELSE IF vec_contains(cargo_features[1], "resolver") THEN cargo_features
  ELSE Some(Append(cargo_features[1], "resolver"))

\* Lines 1508-1562: the descriptor, after the `?` of each map_deps.
published_manifest(self, package, cargo_features, deps, dev_deps, build_deps, target) ==
  IF ~deps.ok THEN deps
  ELSE IF ~dev_deps.ok THEN dev_deps
  ELSE IF ~build_deps.ok THEN build_deps
  ELSE IF ~target.ok THEN target
  ELSE Defined_ok([package |-> Some(package),
                   cargo_features |-> cargo_features,
                   dependencies |-> deps.value[1],
                   dev_dependencies |-> dev_deps.value[1],
                   build_dependencies |-> build_deps.value[1],
                   target |-> target.value[1],
                   replace |-> None,
                   patch |-> None,
                   workspace |-> None])

publish_with_license(self, license_file, resolver) ==
  IF license_file.panic THEN Defined_panic
  ELSE published_manifest(
         self,
         [self.package[1] EXCEPT !.workspace = None, !.resolver = resolver,
                                 !.license_file = license_file.value[1]],
         publish_cargo_features(self.cargo_features, resolver),
         map_deps(self.dependencies, "all"),
         map_deps(self.dev_dependencies, "is_version_specified"),
         map_deps(self.build_dependencies, "all"),
         publish_target(self.target))

\* DefinedTomlManifest::prepare_for_publish: resolver is what
\* ws.resolve_behavior().to_manifest() gives.
prepare_for_publish(self, resolver) ==
  IF is_none(self.package) THEN Defined_panic
  ELSE publish_with_license(self, publish_license_file(self.package[1].license_file), resolver)

\* What a canonical descriptor may hold for a dependency.
PublishDeps ==
  {Simple(<<"1", ".", "0">>),
   Detailed([DetailsDefault EXCEPT !.path = Some(<<"..", "sibling">>)]),
   Detailed([DetailsDefault EXCEPT !.version = Some(<<"1", ".", "0">>), !.path = Some(<<"..", "sibling">>)]),
   Detailed([DetailsDefault EXCEPT !.version = Some(<<"1", ".", "0">>), !.registry = Some("alt")]),
   Detailed([DetailsDefault EXCEPT !.git = Some(<<"https://example.com/repo">>), !.registry = Some("nosuch")])}

\* A table with foo, alone or after an entry bar.
PublishTables ==
  {None}
    \cup {Some([n \in {"foo"} |-> d]) : d \in PublishDeps}
    \cup {Some([n \in {"bar", "foo"} |-> IF n = "foo" THEN d ELSE Simple(<<"2", ".", "0">>)]) :
            d \in PublishDeps}

PublishPlatforms ==
  {[dependencies |-> deps, dev_dependencies |-> dev, dev_dependencies2 |-> dev2,
    build_dependencies |-> None, build_dependencies2 |-> None] :
     dev2 \in {None, Some([n \in {"foo"} |-> Simple(<<"3", ".", "0">>)])},
     deps \in {None, Some([n \in {"foo"} |-> Detailed([DetailsDefault EXCEPT !.path = Some(<<"..", "sibling">>)])])},
     dev \in {None,
              Some([n \in {"foo"} |-> Detailed([DetailsDefault EXCEPT !.path = Some(<<"..", "sibling">>)])]),
              Some([n \in {"bar", "foo"} |->
                      IF n = "foo" THEN Detailed([DetailsDefault EXCEPT !.path = Some(<<"..", "sibling">>)])
                      ELSE Simple(<<"2", ".", "0">>)])}}

\* The license-file of the package: inside the package root, outside it,
\* and outside it without a file name.
PublishLicenseFiles == {None, Some(<<"LICENSE">>), Some(<<"..", "LICENSE">>), Some(<<"..">>)}

PublishPackages ==
  {None} \cup {Some([license_file |-> l, workspace |-> Some(<<"..">>), resolver |-> None]) :
                 l \in PublishLicenseFiles}

PublishDescriptors ==
  {[package |-> p, cargo_features |-> None, dependencies |-> deps, dev_dependencies |-> dev,
    build_dependencies |-> build, target |-> target, replace |-> None, patch |-> None,
    workspace |-> None] :
     p \in PublishPackages,
     deps \in {None} \cup {Some([n \in {"foo"} |-> d]) : d \in PublishDeps},
     dev \in PublishTables,
     build \in {None, Some([n \in {"foo"} |-> Detailed([DetailsDefault EXCEPT !.path = Some(<<"..", "sibling">>)])])},
     target \in {None} \cup {Some([k \in Platforms |-> t]) : t \in PublishPlatforms}}

InitPublish ==
  /\ pc = "prepare_for_publish"
  /\ manifest \in {[raw |-> None, defined |-> Some(d)] : d \in PublishDescriptors}
  /\ ws \in {[root_path |-> Some(<<"/", "ws", "Cargo.toml">>), dependencies |-> None, resolver |-> r] :
               r \in {None, Some("2")}}
  /\ cx = NewContext(SourceId_for_path(package_root), {})
  /\ dep = NoDep
  /\ out = Defined_err("")

PrepareForPublish ==
  /\ pc = "prepare_for_publish"
  /\ out' = prepare_for_publish(manifest.defined[1], ws.resolver)
  /\ pc' = IF out'.ok THEN "done" ELSE IF out'.panic THEN "panicked" ELSE "failed"
  /\ UNCHANGED <<cx, dep, manifest, ws>>

NextPublish == PrepareForPublish

SpecPublish == InitPublish /\ [][NextPublish]_vars

\* C26: no pipeline operation ends in a panic, whatever the descriptor and
\* the path: every failure is returned as an error value.
C26_NeverPanics == pc # "panicked"

\* The names of an optional dependency table.
TableNames(table) == IF is_some(table) THEN DOMAIN table[1] ELSE {}

\* The names of a table whose entry has a version requirement.
VersionedNames(table) == {n \in TableNames(table) : is_version_specified(table[1][n])}

\* The dev table of a platform as prepare_for_publish reads it.
PlatformDev(platform) == or_else(platform.dev_dependencies, platform.dev_dependencies2)

PlatformBuild(platform) == or_else(platform.build_dependencies, platform.build_dependencies2)

\* C28: in the descriptor prepare_for_publish returns, the dev-dependency
\* tables (top-level and per platform) hold exactly the entries of the input
\* that have a version requirement, and every normal and build dependency
\* of the input is kept under its name.
C28_DevDependenciesNeedVersion ==
  pc = "done" /\ is_some(manifest.defined) /\ is_some(out.value) =>
    /\ TableNames(out.value[1].dev_dependencies) = VersionedNames(manifest.defined[1].dev_dependencies)
    /\ TableNames(out.value[1].dependencies) = TableNames(manifest.defined[1].dependencies)
    /\ TableNames(out.value[1].build_dependencies) = TableNames(manifest.defined[1].build_dependencies)
    /\ is_some(out.value[1].target) <=> is_some(manifest.defined[1].target)
    /\ is_some(out.value[1].target) =>
         /\ DOMAIN out.value[1].target[1] = DOMAIN manifest.defined[1].target[1]
         /\ \A k \in DOMAIN out.value[1].target[1] :
              /\ TableNames(PlatformDev(out.value[1].target[1][k]))
                   = VersionedNames(PlatformDev(manifest.defined[1].target[1][k]))
              /\ TableNames(out.value[1].target[1][k].dependencies)
                   = TableNames(manifest.defined[1].target[1][k].dependencies)
              /\ TableNames(PlatformBuild(out.value[1].target[1][k]))
                   = TableNames(PlatformBuild(manifest.defined[1].target[1][k]))

\* The dev tables have an entry without a version requirement next to one
\* with it, at the top level and under a platform, and only the second is
\* in the descriptor returned.
C28_Witness ==
  /\ pc = "done"
  /\ TableNames(manifest.defined[1].dev_dependencies) = {"bar", "foo"}
  /\ ~is_version_specified(manifest.defined[1].dev_dependencies[1]["foo"])
  /\ TableNames(out.value[1].dev_dependencies) = {"bar"}
  /\ is_some(manifest.defined[1].target)
  /\ \E k \in DOMAIN manifest.defined[1].target[1] :
       /\ TableNames(manifest.defined[1].target[1][k].dev_dependencies) = {"bar", "foo"}
       /\ TableNames(out.value[1].target[1][k].dev_dependencies) = {"bar"}
       /\ TableNames(out.value[1].target[1][k].dependencies) = {"foo"}

\* ------------------------------- into_toml_manifest (SpecRoundTrip)

from_defined_dependency_version_only(v) == Simple(unwrap_or(v.details.version, v.version))

\* TomlDependency::from_defined_dependency
from_defined_dependency(v) ==
  IF v.tag = "Simple" THEN Simple(v.version) ELSE Detailed(v.details)

\* to_toml_dependencies: map_btree with from_defined_dependency, which
\* never fails.
to_toml_dependencies(dependencies) ==
  IF is_none(dependencies) THEN None
  ELSE Some([n \in DOMAIN dependencies[1] |-> from_defined_dependency(dependencies[1][n])])

\* TomlPlatform::from_defined_platform
from_defined_platform(defined_platform) ==
  [dependencies |-> to_toml_dependencies(defined_platform.dependencies),
   build_dependencies |-> to_toml_dependencies(defined_platform.build_dependencies),
   build_dependencies2 |-> None,
   dev_dependencies |-> to_toml_dependencies(defined_platform.dev_dependencies),
   dev_dependencies2 |-> None]

\* to_toml_platform
to_toml_platform(defined_platform) ==
  IF is_none(defined_platform) THEN None
  ELSE Some([k \in DOMAIN defined_platform[1] |-> from_defined_platform(defined_platform[1][k])])

\* DefinedTomlManifest::into_toml_manifest, its dependency tables.
into_toml_manifest(self) ==
  [dependencies |-> to_toml_dependencies(self.dependencies),
   dev_dependencies |-> to_toml_dependencies(self.dev_dependencies),
   dev_dependencies2 |-> None,
   build_dependencies |-> to_toml_dependencies(self.build_dependencies),
   build_dependencies2 |-> None,
   target |-> to_toml_platform(self.target),
   replace |-> self.replace,
   patch |-> self.patch]

\* The tables of a manifest or platform written under their underscore
\* keys (`dev_dependencies`, `build_dependencies`).
UnderscoreTables(t) ==
  [t EXCEPT !.dev_dependencies = None, !.dev_dependencies2 = t.dev_dependencies,
            !.build_dependencies = None, !.build_dependencies2 = t.build_dependencies]

UnderscoreKeys(m) ==
  [UnderscoreTables(m) EXCEPT
     !.target = IF is_none(m.target) THEN None
                ELSE Some([k \in DOMAIN m.target[1] |-> UnderscoreTables(m.target[1][k])])]

\* A table that declares foo, or none.
RoundTripTables == {None} \cup {Some([n \in {"foo"} |-> d]) : d \in ManifestDeps}

\* The manifests converted back: tables at the top level and under a
\* platform, written with the hyphenated keys.
RoundTripManifests ==
  {[dependencies |-> deps, dev_dependencies |-> dev, dev_dependencies2 |-> None,
    build_dependencies |-> None, build_dependencies2 |-> None,
    target |-> Some([k \in Platforms |->
                       [dependencies |-> None, dev_dependencies |-> platform_dev,
                        dev_dependencies2 |-> None, build_dependencies |-> platform_build,
                        build_dependencies2 |-> None]]),
    replace |-> None, patch |-> None] :
     deps \in RoundTripTables, dev \in RoundTripTables, platform_dev \in RoundTripTables,
     platform_build \in {None, Some([n \in {"bar"} |-> Simple(<<"1", ".", "0">>)])}}

InitRoundTrip ==
  /\ pc = "canonicalise"
  /\ manifest \in {[raw |-> Some(m), defined |-> None] : m \in RoundTripManifests}
                \cup {[raw |-> Some(UnderscoreKeys(m)), defined |-> None] : m \in RoundTripManifests}
  /\ ws \in {NoWorkspace,
             [root_path |-> Some(<<"/", "ws", "Cargo.toml">>),
              dependencies |-> Some([n \in Names |-> Simple(<<"2", ".", "0">>)])]}
  /\ cx = NewContext(SourceId_for_path(package_root), {})
  /\ dep = NoDep
  /\ out = Defined_err("")

\* do_read_manifest, lines 59-63: the descriptor is canonicalised.
Canonicalise ==
  /\ pc = "canonicalise"
  /\ out' = from_toml_manifest(manifest.raw[1], ws)
  /\ manifest' = [manifest EXCEPT !.defined = out'.value]
  /\ pc' = IF out'.ok THEN "into_toml_manifest" ELSE IF out'.panic THEN "panicked" ELSE "failed"
  /\ UNCHANGED <<dep, cx, ws>>

\* The canonical descriptor is converted back.
IntoTomlManifest ==
  /\ pc = "into_toml_manifest"
  /\ out' = Defined_ok(into_toml_manifest(manifest.defined[1]))
  /\ pc' = "round_tripped"
  /\ UNCHANGED <<dep, cx, ws, manifest>>

NextRoundTrip == Canonicalise \/ IntoTomlManifest

SpecRoundTrip == InitRoundTrip /\ [][NextRoundTrip]_vars

\* The dependency groups of a manifest or of a platform, as
\* from_toml_manifest and from_toml_platform read them.
GroupOf(t, g) ==
  IF g = "dependencies" THEN t.dependencies
  ELSE IF g = "dev" THEN or_else(t.dev_dependencies, t.dev_dependencies2)
  ELSE or_else(t.build_dependencies, t.build_dependencies2)

NoTables ==
  [dependencies |-> None, dev_dependencies |-> None, dev_dependencies2 |-> None,
   build_dependencies |-> None, build_dependencies2 |-> None]

\* The top level of a manifest, or the platform k of its `target`.
ScopeOf(m, k) ==
  IF k = "top" THEN m
  ELSE IF is_some(m.target) /\ k \in DOMAIN m.target[1] THEN m.target[1][k]
  ELSE NoTables

Scopes == {"top"} \cup Platforms

Groups == {"dependencies", "dev", "build"}

\* No dependency of the manifest is `workspace = true`.
NoDelegation(m) ==
  \A k \in Scopes, g \in Groups :
    \A n \in TableNames(GroupOf(ScopeOf(m, k), g)) :
      GroupOf(ScopeOf(m, k), g)[1][n].tag # "Workspace"

SourceOf(r) == IF r.ok THEN Some(r.dep[1].source_id) ELSE None

\* The source identity a manifest entry materializes to: it is
\* canonicalised (without workspace entries) and to_dependency is applied.
SourceIdentity(toml, name) ==
  SourceOf(to_dependency(from_toml_dependency(toml, name, EmptyMap, None).value[1], name,
                         NewContext(SourceId_for_path(package_root), {}), None))

\* C27: for a descriptor with no workspace delegation, from_toml_manifest
\* followed by into_toml_manifest yields a descriptor with the same
\* dependency names in each group (normal, dev, build, per platform), each
\* of which materializes to the same source identity.
C27_RoundTripKeepsDependencies ==
  pc = "round_tripped" /\ NoDelegation(manifest.raw[1]) =>
    \A k \in Scopes, g \in Groups :
      /\ TableNames(GroupOf(ScopeOf(out.value[1], k), g))
           = TableNames(GroupOf(ScopeOf(manifest.raw[1], k), g))
      /\ \A n \in TableNames(GroupOf(ScopeOf(manifest.raw[1], k), g)) :
           SourceIdentity(GroupOf(ScopeOf(out.value[1], k), g)[1][n], n)
             = SourceIdentity(GroupOf(ScopeOf(manifest.raw[1], k), g)[1][n], n)

\* A path dependency written under the underscore key of a platform and a
\* versioned one at the top level are both in the descriptor converted back.
C27_Witness ==
  /\ pc = "round_tripped"
  /\ NoDelegation(manifest.raw[1])
  /\ is_some(manifest.raw[1].dependencies)
  /\ is_some(manifest.raw[1].target)
  /\ \E k \in Platforms :
       /\ is_some(manifest.raw[1].target[1][k].dev_dependencies2)
       /\ \E n \in TableNames(out.value[1].target[1][k].dev_dependencies) :
            /\ SourceIdentity(out.value[1].target[1][k].dev_dependencies[1][n], n)
                 = Some(SourceId_for_path(<<"/", "ws", "member", "a">>))
            /\ manifest.raw[1].target[1][k].dev_dependencies2[1][n].tag = "Detailed"

\* ---------------------------------------- do_read_manifest (SpecRead)

MaxSections == 1

E_no_targets == "no targets specified in the manifest"

E_virtual_section(section) ==
  "this virtual manifest specifies a [" \o section \o "] section, which is not allowed"

E_virtual_needs_workspace == "virtual manifests must be configured with [workspace]"

E_workspace_both == "cannot configure both package.workspace and [workspace], only one can be specified"

E_optional_workspace_dependency(name) ==
  name \o " is optional, but workspace dependencies cannot be optional"

E_unknown_cargo_feature == "unknown cargo feature"

E_target_discovery == "target discovery failed"

E_workspace_root_config == "the [workspace] table cannot be used"

W_stable_feature == "the cargo feature is now stable and is no longer necessary to be listed"

W_unused_key(key) == "unused manifest key: " \o key

W_license_or_file == "only one of license or license-file is necessary"

\* Features::new(cargo_features, &mut warnings): a stabilised feature is a
\* warning, an unknown one is an error, any other is enabled.
Features_new(cargo_features, warnings) ==
  IF vec_contains(unwrap_or(cargo_features, <<>>), "nosuch")
    THEN [ok |-> FALSE, err |-> E_unknown_cargo_feature, features |-> {}, warnings |-> warnings]
  ELSE [ok |-> TRUE, err |-> "",
        features |-> {unwrap_or(cargo_features, <<>>)[i] :
                        i \in DOMAIN unwrap_or(cargo_features, <<>>)} \ {"test-dummy-stable"},
        warnings |-> IF vec_contains(unwrap_or(cargo_features, <<>>), "test-dummy-stable")
                     THEN Append(warnings, W_stable_feature) ELSE warnings]

\* WorkspaceConfig::Root / WorkspaceConfig::Member
WorkspaceConfig_Root == [kind |-> "Root", root |-> None]

WorkspaceConfig_Member(root) == [kind |-> "Member", root |-> root]

Configured(config) == [ok |-> TRUE, err |-> "", config |-> Some(config)]

NotConfigured(e) == [ok |-> FALSE, err |-> e, config |-> None]

\* WorkspaceRootConfig::from_toml_workspace(...)?: the table is usable or
\* it is not.
from_toml_workspace(toml_workspace) ==
  IF toml_workspace.usable THEN Configured(WorkspaceConfig_Root)
  ELSE NotConfigured(E_workspace_root_config)

workspace_config_root_first(workspace, project_workspace) ==
  IF is_some(workspace) THEN from_toml_workspace(workspace[1])
  ELSE Configured(WorkspaceConfig_Member(project_workspace))

\* DefinedTomlManifest::workspace_config (and TomlManifest::workspace_config):
\* the match on (self.workspace, project_workspace).
workspace_config(workspace, project_workspace) ==
  IF is_some(workspace) /\ is_none(project_workspace) THEN from_toml_workspace(workspace[1])
  ELSE IF is_none(workspace) THEN Configured(WorkspaceConfig_Member(project_workspace))
  ELSE NotConfigured(E_workspace_both)

\* Line 2048: self.package.as_ref().and_then(|p| p.workspace.as_ref())
project_workspace_of(package) == IF is_some(package) THEN package[1].workspace ELSE None

\* What do_read_manifest returns: the kind of manifest, its warnings (each
\* soft or critical), its workspace configuration and its targets.
ReadOk(kind, warnings, config, targets) ==
  [ok |-> TRUE, err |-> "", kind |-> kind, warnings |-> warnings, config |-> config,
   targets |-> targets]

ReadFailed(e) ==
  [ok |-> FALSE, err |-> e, kind |-> "", warnings |-> <<>>, config |-> None, targets |-> <<>>]

\* Warnings::add_warning / Warnings::add_critical_warning over a vector.
soft_warnings(messages) ==
  [i \in DOMAIN messages |-> [message |-> messages[i], is_critical |-> FALSE]]

critical_warnings(messages) ==
  [i \in DOMAIN messages |-> [message |-> messages[i], is_critical |-> TRUE]]

add_unused_ignored(warnings, unused) == warnings

\* add_unused: a warning per unused key, and the hint for profiles.debug.
RECURSIVE add_unused(_, _)
add_unused(warnings, unused) ==
  IF unused = <<>> THEN warnings
  ELSE add_unused(
         warnings \o soft_warnings(IF unused[1] = "profiles.debug"
                                   THEN <<W_unused_key(unused[1]), W_profile_debug>>
                                   ELSE <<W_unused_key(unused[1])>>),
         Tail(unused))

\* Lines 1801-1804 and 1946-1949: profiles.validate when [profile] is given.
validate_profiles(profile, features, warnings) ==
  IF is_none(profile) THEN Valid(warnings)
  ELSE TomlProfiles_validate(profile[1], keys_in(ProfileNameOrder, profile[1]), features, warnings)

\* Lines 1868-1874
license_warning(package) ==
  IF is_some(package.license_file) /\ is_some(package.license) THEN <<W_license_or_file>> ELSE <<>>

\* Lines 1801-1884: the profiles are validated and the Manifest is made
\* with the warnings and the errors collected.
real_manifest_after_profiles(me, discovery, valid, config) ==
  IF ~valid.ok THEN ReadFailed(valid.err)
  ELSE ReadOk("Real",
              soft_warnings(license_warning(me.package[1])) \o soft_warnings(valid.warnings)
                \o critical_warnings(discovery.errors),
              config.config, discovery.targets)

\* Lines 1684-1804
real_manifest_after_dependencies(me, discovery, features, processed, config) ==
  IF ~processed.ok THEN ReadFailed(processed.err)
  ELSE IF ~config.ok THEN ReadFailed(config.err)
  ELSE real_manifest_after_profiles(me, discovery,
                                    validate_profiles(me.profile, features, processed.cx.warnings),
                                    config)

\* Lines 1580-1799: discovery is what targets() finds for the package (its
\* warnings include that of unique_build_targets).
real_manifest_after_features(me, w, discovery, features) ==
  IF ~features.ok THEN ReadFailed(features.err)
  ELSE IF ~discovery.ok THEN ReadFailed(E_target_discovery)
  ELSE real_manifest_after_dependencies(
         me, discovery, features.features,
         into_real_manifest(me.tables, w,
                            [NewContext(SourceId_for_path(package_root), features.features)
                               EXCEPT !.warnings = features.warnings \o discovery.warnings]),
         workspace_config(me.workspace, project_workspace_of(me.package)))

\* DefinedTomlManifest::into_real_manifest, with the targets and the Manifest.
real_manifest(me, w, discovery) ==
  real_manifest_after_features(me, w, discovery, Features_new(me.cargo_features, <<>>))

\* The sections into_virtual_manifest refuses, in the order it tests them.
VirtualSectionOrder ==
  <<"project", "lib", "bin", "example", "test", "bench", "dependencies", "dev-dependencies",
    "build-dependencies", "features", "target", "badges">>

section_declared_outside_tables(me, section) ==
  IF section = "project" THEN is_some(me.package) ELSE section \in me.sections

\* self.<section>.is_some() on the canonical descriptor.
section_declared(me, section) ==
  IF section = "project" THEN is_some(me.package)
  ELSE IF section = "dependencies" THEN is_some(me.tables.dependencies)
  ELSE IF section = "dev-dependencies" THEN is_some(me.tables.dev_dependencies)
  ELSE IF section = "build-dependencies" THEN is_some(me.tables.build_dependencies)
  ELSE IF section = "target" THEN is_some(me.tables.target)
  ELSE section \in me.sections

\* Lines 1894-1929: the first section that makes into_virtual_manifest bail.
RECURSIVE refused_section(_, _)
refused_section(me, order) ==
  IF order = <<>> THEN None
  ELSE IF section_declared(me, order[1]) THEN Some(order[1])
  ELSE refused_section(me, Tail(order))

\* Lines 1946-1985: the warnings vector is not given to the VirtualManifest.
virtual_manifest_after_profiles(me, valid, config) ==
  IF ~valid.ok THEN ReadFailed(valid.err)
  ELSE IF ~config.ok THEN ReadFailed(config.err)
  ELSE IF config.config[1].kind # "Root" THEN ReadFailed(E_virtual_needs_workspace)
  ELSE ReadOk("Virtual", <<>>, config.config, <<>>)

virtual_manifest_after_features(me, features) ==
  IF ~features.ok THEN ReadFailed(features.err)
  ELSE virtual_manifest_after_profiles(
         me, validate_profiles(me.profile, features.features, features.warnings),
         workspace_config(me.workspace, project_workspace_of(me.package)))

virtual_manifest_after_sections(me, refused) ==
  IF is_some(refused) THEN ReadFailed(E_virtual_section(refused[1]))
  ELSE virtual_manifest_after_features(me, Features_new(me.cargo_features, <<>>))

\* DefinedTomlManifest::into_virtual_manifest
into_virtual_manifest(me) ==
  virtual_manifest_after_sections(me, refused_section(me, VirtualSectionOrder))

no_targets_at_all(targets) == targets = <<>>

\* Line 92: manifest.targets().iter().all(|t| t.is_custom_build())
all_custom_build(targets) == \A i \in DOMAIN targets : targets[i] = "custom-build"

\* Lines 74-87: the first optional entry of [workspace.dependencies].
RECURSIVE optional_workspace_dependency(_, _)
optional_workspace_dependency(deps, keys) ==
  IF keys = <<>> THEN None
  ELSE IF is_optional(deps[keys[1]]) THEN Some(keys[1])
  ELSE optional_workspace_dependency(deps, Tail(keys))

optional_in_workspace(workspace) ==
  IF is_none(workspace) THEN None
  ELSE IF is_none(workspace[1].dependencies) THEN None
  ELSE optional_workspace_dependency(workspace[1].dependencies[1],
                                     keys_in(NameOrder, workspace[1].dependencies[1]))

\* Lines 89-100: the package manifest, the unused keys and the target check.
read_real_manifest(r, unused) ==
  IF ~r.ok THEN r
  ELSE IF all_custom_build(r.targets) THEN ReadFailed(E_no_targets)
  ELSE [r EXCEPT !.warnings = add_unused(r.warnings, unused)]

\* Lines 101-105
read_virtual_manifest(r, unused) ==
  IF ~r.ok THEN r ELSE [r EXCEPT !.warnings = add_unused(r.warnings, unused)]

\* The dependency tables a document with the sections S declares.
ReadTables(S) ==
  [dependencies |-> IF "dependencies" \in S
                    THEN Some([n \in {"foo"} |-> Detailed(DetailsDefault)]) ELSE None,
   dev_dependencies |-> IF "dev-dependencies" \in S
                        THEN Some([n \in {"foo"} |-> Simple(<<"1", ".", "0">>)]) ELSE None,
   dev_dependencies2 |-> IF "dev_dependencies" \in S
                         THEN Some([n \in {"bar"} |-> Simple(<<"1", ".", "0">>)]) ELSE None,
   build_dependencies |-> IF "build-dependencies" \in S
                          THEN Some([n \in {"foo"} |-> Simple(<<"1", ".", "0">>)]) ELSE None,
   build_dependencies2 |-> IF "build_dependencies" \in S
                           THEN Some([n \in {"bar"} |-> Simple(<<"1", ".", "0">>)]) ELSE None,
   target |-> IF "target" \in S THEN Some([k \in Platforms |-> NoTables]) ELSE None,
   replace |-> None,
   patch |-> None]

\* Lines 428-447: the canonical descriptor of the document.
canonical_descriptor(doc, tables) ==
  [cargo_features |-> doc.cargo_features, package |-> doc.package, workspace |-> doc.workspace,
   profile |-> doc.profile, sections |-> doc.sections, tables |-> tables]

read_canonical(me, w, discovery, unused, optional) ==
  IF is_some(optional) THEN ReadFailed(E_optional_workspace_dependency(optional[1]))
  ELSE IF is_some(me.package) THEN read_real_manifest(real_manifest(me, w, discovery), unused)
  ELSE read_virtual_manifest(into_virtual_manifest(me), unused)

read_tables(doc, w, discovery, unused, tables) ==
  IF ~tables.ok THEN ReadFailed(tables.err)
  ELSE read_canonical(canonical_descriptor(doc, tables.value[1]), w, discovery, unused,
                      optional_in_workspace(doc.workspace))

\* do_read_manifest: output is the cached parse (the document and its
\* unused keys), discovery what targets() finds in the package directory.
do_read_manifest(output, w, discovery) ==
  read_tables(output.raw[1], w, discovery, output.unused,
              from_toml_manifest(ReadTables(output.raw[1].sections), w))

SectionNames ==
  {"lib", "bin", "example", "test", "bench", "dependencies", "dev-dependencies",
   "dev_dependencies", "build-dependencies", "build_dependencies", "features", "target",
   "badges"}

ReadSections == {S \in SUBSET SectionNames : Cardinality(S) <= MaxSections}

ReadPackages ==
  {None} \cup {Some([workspace |-> p, license |-> l, license_file |-> l]) :
                 p \in {None, Some(<<"..">>)}, l \in {None, Some("MIT")}}

ReadWorkspaces ==
  {None,
   Some([dependencies |-> None, usable |-> TRUE]),
   Some([dependencies |-> None, usable |-> FALSE]),
   Some([dependencies |->
           Some([n \in {"foo"} |->
                   Detailed([DetailsDefault EXCEPT !.version = Some(<<"1", ".", "0">>),
                                                   !.optional = Some(TRUE)])]),
         usable |-> TRUE])}

ReadProfiles == {None, Some([n \in {<<"d", "o", "c">>} |-> ProfileDefault])}

ReadCargoFeatures == {None, Some(<<"test-dummy-stable">>), Some(<<"nosuch">>)}

ReadDocuments ==
  {[cargo_features |-> f, package |-> p, workspace |-> t, profile |-> q, sections |-> S] :
     f \in ReadCargoFeatures, p \in ReadPackages, t \in ReadWorkspaces, q \in ReadProfiles,
     S \in ReadSections}

W_discovery == "file found to be present in multiple build targets"

E_discovery == "can not find the source file of a target"

\* What targets() may give: a failure, or the targets with the warnings and
\* the errors pushed.
Discoveries ==
  {[ok |-> FALSE, targets |-> <<>>, warnings |-> <<>>, errors |-> <<>>]}
    \cup {[ok |-> TRUE, targets |-> t, warnings |-> <<>>, errors |-> <<>>] :
            t \in {<<>>, <<"custom-build">>, <<"lib">>, <<"lib", "custom-build">>}}
    \cup {[ok |-> TRUE, targets |-> t, warnings |-> <<W_discovery>>, errors |-> <<E_discovery>>] :
            t \in {<<"custom-build">>, <<"bin", "custom-build">>}}

UnusedKeys == {<<>>, <<"package.foo", "profiles.debug">>}

InitRead ==
  /\ pc = "do_read_manifest"
  /\ manifest \in {[raw |-> Some(d), defined |-> None, unused |-> u, discovery |-> t] :
                     d \in ReadDocuments, u \in UnusedKeys, t \in Discoveries}
  /\ ws = NoWorkspace
  /\ cx = NewContext(SourceId_for_path(package_root), {})
  /\ dep = NoDep
  /\ out = ReadFailed("")

DoReadManifest ==
  /\ pc = "do_read_manifest"
  /\ out' = do_read_manifest(manifest, ws, manifest.discovery)
  /\ pc' = IF out'.ok THEN "done" ELSE "failed"
  /\ UNCHANGED <<cx, dep, manifest, ws>>

NextRead == DoReadManifest

SpecRead == InitRead /\ [][NextRead]_vars

\* The document read, and what the read found next to it.
Doc == manifest.raw[1]

HasRead == pc \in {"done", "failed"} /\ is_some(manifest.raw) /\ "discovery" \in DOMAIN manifest

OnlyBuildScriptTargets ==
  {manifest.discovery.targets[i] : i \in DOMAIN manifest.discovery.targets} \subseteq {"custom-build"}

PackagePointer == IF is_some(Doc.package) THEN Doc.package[1].workspace ELSE None

\* The causes for which the read of a document of the model fails before
\* the targets are looked at.
ListsUnknownCargoFeature == vec_contains(unwrap_or(Doc.cargo_features, <<>>), "nosuch")

WorkspaceDeclaresOptional ==
  /\ is_some(Doc.workspace)
  /\ is_some(Doc.workspace[1].dependencies)
  /\ \E n \in DOMAIN Doc.workspace[1].dependencies[1] :
       Doc.workspace[1].dependencies[1][n].details.optional = Some(TRUE)

WorkspaceUnusable == is_some(Doc.workspace) /\ ~Doc.workspace[1].usable

WorkspaceAndPointer == is_some(Doc.workspace) /\ is_some(PackagePointer)

FailsBeforeTargetCheck ==
  \/ ListsUnknownCargoFeature
  \/ WorkspaceDeclaresOptional
  \/ WorkspaceUnusable
  \/ WorkspaceAndPointer
  \/ ~manifest.discovery.ok

\* C21: reading a document with a package section fails with the
\* no-targets error whenever every resolved target is a build-script target
\* (the empty list included), and that check never rejects a package with a
\* target that is not a build script.
C21_NoTargetsRejected ==
  HasRead =>
    /\ (is_some(Doc.package) /\ OnlyBuildScriptTargets => ~out.ok)
    /\ (is_some(Doc.package) /\ OnlyBuildScriptTargets /\ ~FailsBeforeTargetCheck
          => out.err = E_no_targets)
    /\ (out.err = E_no_targets => is_some(Doc.package) /\ OnlyBuildScriptTargets)

\* A package whose only target is its build script is refused.
C21_Witness ==
  /\ HasRead
  /\ pc = "failed"
  /\ manifest.discovery.targets = <<"custom-build">>
  /\ out.err = E_no_targets

\* C22: reading a document without a package section fails when it
\* declares one of the dependency tables, lib, bin, example, test, bench,
\* features, target or badges, and fails when it declares no [workspace]; a
\* virtual manifest is made only of a document with [workspace] and none of
\* those sections.
C22_VirtualManifestSections ==
  HasRead /\ is_none(Doc.package) =>
    /\ (Doc.sections # {} => ~out.ok)
    /\ (is_none(Doc.workspace) => ~out.ok)
    /\ (out.ok => out.kind = "Virtual" /\ is_some(Doc.workspace) /\ Doc.sections = {})
    /\ (Doc.sections = {} /\ is_some(Doc.workspace) /\ ~ListsUnknownCargoFeature
          /\ ~WorkspaceDeclaresOptional /\ ~WorkspaceUnusable => out.ok)

\* A document with [workspace] whose only other section is a
\* dev_dependencies table is refused for its dev-dependencies.
C22_Witness ==
  /\ HasRead
  /\ is_none(Doc.package)
  /\ is_some(Doc.workspace)
  /\ Doc.sections = {"dev_dependencies"}
  /\ pc = "failed"
  /\ out.err = E_virtual_section("dev-dependencies")

\* C23: a document with both [workspace] and a package.workspace pointer
\* is rejected; [workspace] alone gives a root configuration (when the
\* table is usable); no [workspace] gives a member configuration that
\* carries the optional pointer.
C23_WorkspaceConfiguration ==
  HasRead =>
    /\ (WorkspaceAndPointer => ~out.ok)
    /\ (WorkspaceAndPointer /\ ~ListsUnknownCargoFeature /\ ~WorkspaceDeclaresOptional
          /\ manifest.discovery.ok => out.err = E_workspace_both)
    /\ (out.ok /\ is_some(Doc.workspace) => out.config = Some(WorkspaceConfig_Root))
    /\ (out.ok /\ is_none(Doc.workspace)
          => out.config = Some(WorkspaceConfig_Member(PackagePointer)))
    /\ (is_some(Doc.workspace) /\ is_none(PackagePointer) /\ ~out.ok
          /\ out.err = E_workspace_root_config => WorkspaceUnusable)

\* A package that names its workspace and declares [workspace] is refused.
C23_Witness ==
  /\ HasRead
  /\ pc = "failed"
  /\ is_some(Doc.workspace)
  /\ PackagePointer = Some(<<"..">>)
  /\ out.err = E_workspace_both

WarnedSoftly(message) ==
  \E i \in DOMAIN out.warnings : out.warnings[i] = [message |-> message, is_critical |-> FALSE]

WarnedCritically(message) ==
  \E i \in DOMAIN out.warnings : out.warnings[i] = [message |-> message, is_critical |-> TRUE]

\* C25: when the read of a package document succeeds, every soft warning
\* of capability parsing, target discovery, dependency materialization and
\* profile validation, and a warning per unused key, is in the warnings of
\* the manifest, and every target-discovery error is a critical warning;
\* none of them makes the read fail.
C25_WarningsAttached ==
  HasRead /\ is_some(Doc.package) =>
    /\ (out.ok =>
          /\ out.kind = "Real"
          /\ (vec_contains(unwrap_or(Doc.cargo_features, <<>>), "test-dummy-stable")
                => WarnedSoftly(W_stable_feature))
          /\ \A i \in DOMAIN manifest.discovery.warnings : WarnedSoftly(manifest.discovery.warnings[i])
          /\ ("dependencies" \in Doc.sections => WarnedSoftly(W_no_source))
          /\ (is_some(Doc.profile) => WarnedSoftly(W_profile_doc))
          /\ \A i \in DOMAIN manifest.unused : WarnedSoftly(W_unused_key(manifest.unused[i]))
          /\ \A i \in DOMAIN manifest.discovery.errors :
               WarnedCritically(manifest.discovery.errors[i]))
    /\ (~FailsBeforeTargetCheck /\ ~OnlyBuildScriptTargets => out.ok)

\* A package whose read pushes a warning of each kind and a discovery error.
C25_Witness ==
  /\ HasRead
  /\ pc = "done"
  /\ out.kind = "Real"
  /\ WarnedSoftly(W_stable_feature)
  /\ WarnedSoftly(W_discovery)
  /\ WarnedSoftly(W_no_source)
  /\ WarnedSoftly(W_profile_doc)
  /\ WarnedSoftly(W_unused_key("package.foo"))
  /\ WarnedSoftly(W_license_or_file)
  /\ WarnedCritically(E_discovery)

\* ---------------------------------- the manifest cache (SpecCache)

MaxResolutions == 3

RootManifestPath == "/ws/Cargo.toml"

MemberManifestPaths == {"/ws/a/Cargo.toml", "/ws/b/Cargo.toml"}

\* ParseOutput: the document of a file and its unused keys.
ParseOutput(file) == [manifest |-> file, unused |-> <<>>]

\* parse_manifest: the parse of a file is memoized by path.
parse_manifest(cache, files, path) ==
  IF path \in DOMAIN cache THEN cache
  ELSE [q \in DOMAIN cache \cup {path} |->
          IF q = path THEN ParseOutput(files[path]) ELSE cache[q]]

\* A document whose tables were moved out.
TakenManifest(m) ==
  [m EXCEPT !.dependencies = None, !.dev_dependencies = None, !.build_dependencies = None,
            !.target = None]

TomlManifest_take(output) ==
  [manifest |-> output.manifest, output |-> [output EXCEPT !.manifest = TakenManifest(@)]]

\* Lines 59-61: TomlManifest::clone(&output.manifest) gives from_toml_manifest
\* a copy of the document and leaves the borrowed output as it is.
TomlManifest_clone(output) == [manifest |-> output.manifest, output |-> output]

\* Lines 388-404: the workspace of the root's parse output and its
\* [workspace.dependencies].
workspace_of_root(cache, root_path) ==
  [root_path |-> Some(<<"/", "ws", "Cargo.toml">>),
   dependencies |-> IF is_some(cache[root_path].manifest.workspace)
                    THEN cache[root_path].manifest.workspace[1].dependencies ELSE None]

Resolution(ok, err, deps) == [ok |-> ok, err |-> err, deps |-> deps]

\* Lines 59-63 and 89-91: the canonical descriptor, then its dependencies.
resolve_canonical(canonical, w) ==
  IF ~canonical.ok THEN Resolution(FALSE, canonical.err, <<>>)
  ELSE Resolution(
         into_real_manifest(canonical.value[1], w,
                            NewContext(SourceId_for_path(package_root), {})).ok,
         into_real_manifest(canonical.value[1], w,
                            NewContext(SourceId_for_path(package_root), {})).err,
         into_real_manifest(canonical.value[1], w,
                            NewContext(SourceId_for_path(package_root), {})).cx.deps)

\* do_read_manifest on the cached output of path, with the cached root.
resolve_member(cache, path) ==
  resolve_canonical(
    from_toml_manifest(TomlManifest_clone(cache[path]).manifest,
                       workspace_of_root(cache, RootManifestPath)),
    workspace_of_root(cache, RootManifestPath))

\* The cache after do_read_manifest returned.
cache_after_read(cache, path) ==
  [cache EXCEPT ![path] = TomlManifest_clone(cache[path]).output]

\* read_manifest: the cache once the outputs of path and of the workspace
\* root were asked of parse_manifest.
cache_for_read(cache, files, path) ==
  parse_manifest(parse_manifest(cache, files, path), files, RootManifestPath)

EmptyCache == [q \in {} |-> ParseOutput(None)]

MemberTables(deps) ==
  [dependencies |-> deps, dev_dependencies |-> None, dev_dependencies2 |-> None,
   build_dependencies |-> None, build_dependencies2 |-> None, target |-> None,
   replace |-> None, patch |-> None, workspace |-> None]

\* A member inherits foo, inherits bar (which the root may not declare),
\* or declares foo itself.
MemberFiles ==
  {MemberTables(Some([n \in {"foo"} |-> Workspace(NoWorkspaceDetails)])),
   MemberTables(Some([n \in {"bar"} |-> Workspace(NoWorkspaceDetails)])),
   MemberTables(Some([n \in {"foo"} |-> Simple(<<"1", ".", "0">>)]))}

RootFiles ==
  {[MemberTables(None) EXCEPT !.workspace = Some([dependencies |-> d])] :
     d \in {Some([n \in {"foo"} |-> Simple(<<"2", ".", "0">>)]),
            Some([n \in {"foo"} |-> Detailed([DetailsDefault EXCEPT !.path = Some(<<"member", "a">>)])])}}

CachedFiles ==
  {[q \in MemberManifestPaths \cup {RootManifestPath} |->
      IF q = RootManifestPath THEN r ELSE IF q = "/ws/a/Cargo.toml" THEN a ELSE b] :
     r \in RootFiles, a \in MemberFiles, b \in MemberFiles}

InitCache ==
  /\ pc = "read_manifest"
  /\ manifest \in {[files |-> f, cache |-> EmptyCache] : f \in CachedFiles}
  /\ ws = NoWorkspace
  /\ cx = NewContext(SourceId_for_path(package_root), {})
  /\ dep = NoDep
  /\ out = <<>>

\* read_manifest(path): parse_manifest, then do_read_manifest on its output.
ReadManifest(path) ==
  /\ pc = "read_manifest"
  /\ Len(out) < MaxResolutions
  /\ out' = Append(out, [path |-> path,
                         result |-> resolve_member(cache_for_read(manifest.cache, manifest.files, path),
                                                   path)])
  /\ manifest' = [manifest EXCEPT
                    !.cache = cache_after_read(cache_for_read(manifest.cache, manifest.files, path),
                                               path)]
  /\ UNCHANGED <<pc, cx, dep, ws>>

NextCache == \E path \in MemberManifestPaths : ReadManifest(path)

SpecCache == InitCache /\ [][NextCache]_vars

\* What resolving path gives when it is the first resolution made.
ResolvedFirst(path) ==
  resolve_member(cache_for_read(EmptyCache, manifest.files, path), path)

\* C29: resolving a document never modifies the cached parse output of the
\* document or of its workspace root, and after any sequence of successful
\* or failed resolutions against the same cached root, resolving a member
\* gives what it gives when it is resolved first.
C29_CacheNotModified ==
  pc = "read_manifest" =>
    /\ \A q \in DOMAIN manifest.cache : manifest.cache[q] = ParseOutput(manifest.files[q])
    /\ \A i \in DOMAIN out : out[i].result = ResolvedFirst(out[i].path)

\* A member that inherits from the root is resolved, its sibling fails to
\* resolve, and the member is resolved again.
C29_Witness ==
  /\ pc = "read_manifest"
  /\ Len(out) = 3
  /\ out[1].path = "/ws/a/Cargo.toml" /\ out[1].result.ok /\ Len(out[1].result.deps) > 0
  /\ out[2].path = "/ws/b/Cargo.toml" /\ ~out[2].result.ok
  /\ out[3] = out[1]
  /\ manifest.files["/ws/a/Cargo.toml"].dependencies[1]["foo"].tag = "Workspace"

====
